---------------------------- MODULE Spec2Model ----------------------------
(***************************************************************************)
(* TaskPulse (src/app/page.tsx): the task store of the Home component      *)
(* (local cache, remote document store, optimistic mutations), the         *)
(* debounced save of the weekly workout plan, and the derived statistics   *)
(* (streak, 14-day cumulative series).                                     *)
(*                                                                         *)
(* A Date is the number of milliseconds since local midnight of BaseDay;   *)
(* BaseDay is a day number counted from 1970-01-01.  A day key             *)
(* "YYYY-MM-DD" is the triple <<year, month, day>>.                        *)
(***************************************************************************)
EXTENDS Integers, Sequences, FiniteSets, Bags, TLC

(***************************************************************************)
(* Bounds of the model.                                                    *)
(***************************************************************************)
BaseDay == 19782
MaxIds == 1
MaxTicks == 1
MaxFetches == 1
MaxWrites == 1
MaxSyncWrites == 2
MaxUserFetches == 2
MaxFrameTasks == 3
MaxTimers == 4
MaxPlanSteps == 3
PlanStep == 150
MaxStatTasks == 3
MaxListTasks == 2
MaxNice == 1200
OriginStep == 15
OriginSpan == 26
MaxShift == 6
MaxBack == 3

(***************************************************************************)
(* Program constants.                                                      *)
(***************************************************************************)
SaveDelay == 450
WindowDays == 14

MsPerDay == 24 * 60 * 60 * 1000

(***************************************************************************)
(* JavaScript values of optional fields: undefined, null, or a value.      *)
(***************************************************************************)
Undefined == <<"undefined">>
Null == <<"null">>
Val(v) == <<"val", v>>
IsVal(x) == Len(x) = 2
ValOf(x) == x[2]
\* x ?? d
Coalesce(x, d) == IF x = Undefined \/ x = Null THEN d ELSE x
\* x == null (loose equality: true of null and of undefined)
IsNullish(x) == x = Undefined \/ x = Null

(***************************************************************************)
(* Date helpers.                                                           *)
(***************************************************************************)
VARIABLES
    scope        \* what the model explores: [accounts, fetches, writes, day0],
                 \* and the device's offset from UTC in hours, tz

\* A Date is the number of milliseconds since local midnight of day number
\* scope.day0 (days since 1970-01-01).
\* Day number of the local calendar day of Date d.
LocalDay(d) == scope.day0 + (d \div MsPerDay)

\* The civil date <<y, m, d>> of a day number: what getFullYear(),
\* getMonth() + 1 and getDate() return for a Date on that local day.
CivilFromDays(z) ==
    LET s   == z + 719468
        era == s \div 146097
        doe == s - era * 146097
        yoe == (doe - (doe \div 1460) + (doe \div 36524) - (doe \div 146096)) \div 365
        doy == doe - (365 * yoe + (yoe \div 4) - (yoe \div 100))
        mp  == (5 * doy + 2) \div 153
        dd  == doy - ((153 * mp + 2) \div 5) + 1
        mm  == IF mp < 10 THEN mp + 3 ELSE mp - 9
        yy  == yoe + era * 400 + (IF mm <= 2 THEN 1 ELSE 0)
    IN  <<yy, mm, dd>>

\* Mutant of dayKey: getMonth() is used as it is, counted from 0.
dayKeyZeroBasedMonth(d) ==
    LET k == CivilFromDays(LocalDay(d)) IN <<k[1], k[2] - 1, k[3]>>

dayKey(d) == CivilFromDays(LocalDay(d))

\* new Date(base); d.setDate(d.getDate() + days): same time of day, days later.
addDays(base, days) == base + days * MsPerDay

\* d.getDay(): 0 = Sunday .. 6 = Saturday (1970-01-01 was a Thursday).
getDay(d) == (LocalDay(d) + 4) % 7

\* Mutant of startOfWeekMonday: Sunday is not treated apart.
startOfWeekMondayNoSunday(d) ==
    LET x == addDays(d, 1 - getDay(d))
    IN  x - (x % MsPerDay)

\* x.setDate(x.getDate() + diff); x.setHours(0, 0, 0, 0)
startOfWeekMonday(d) ==
    LET day  == getDay(d)
        diff == IF day = 0 THEN -6 ELSE 1 - day
        x    == addDays(d, diff)
    IN  x - (x % MsPerDay)

weekKeysMonSun(d) == [i \in 1..7 |-> dayKey(addDays(startOfWeekMonday(d), i - 1))]

\* The number of days from 1970-01-01 to the day <<y, m, d>>.
DaysFromCivil(k) ==
    LET y   == IF k[2] <= 2 THEN k[1] - 1 ELSE k[1]
        era == y \div 400
        yoe == y - era * 400
        mp  == IF k[2] > 2 THEN k[2] - 3 ELSE k[2] + 9
        doy == ((153 * mp + 2) \div 5) + k[3] - 1
        doe == yoe * 365 + (yoe \div 4) - (yoe \div 100) + doy
    IN  era * 146097 + doe - 719468

MsPerHour == 60 * 60 * 1000

\* new Date("YYYY-MM-DD"): a date-only string is read as midnight UTC, which
\* on the device's clock is scope.tz hours away from midnight of that day.
DateFromKey(k) == (DaysFromCivil(k) - scope.day0) * MsPerDay + scope.tz * MsPerHour

\* new Date(y, m - 1, dd): local midnight of that day.
DateFromParts(k) == (DaysFromCivil(k) - scope.day0) * MsPerDay

toWeekdayKeyFromDate(d) ==
    LET day == getDay(d)
    IN  IF day = 0 THEN "sun"
        ELSE IF day = 1 THEN "mon"
        ELSE IF day = 2 THEN "tue"
        ELSE IF day = 3 THEN "wed"
        ELSE IF day = 4 THEN "thu"
        ELSE IF day = 5 THEN "fri"
        ELSE "sat"

\* dt.toLocaleDateString("en-US", {weekday: "short"})
ShortWeekdays == <<"Sun", "Mon", "Tue", "Wed", "Thu", "Fri", "Sat">>
labelWeekdayEN(key) == ShortWeekdays[getDay(DateFromParts(key)) + 1]


(***************************************************************************)
(* Task records.                                                           *)
(***************************************************************************)
Categories == {"daily", "workout", "work"}
WorkoutParts == {"chest", "back", "legs", "arms", "shoulders", "core", "cardio"}
Users == {"alice", "bob"}
NoUser == "null"

RequiredKeys == {"id", "text", "done", "createdAt", "category"}
OptionalKeys == {"doneAt", "doneDay", "dueDay", "workoutPart"}

\* text.trim(): a text is a sequence of characters.
RECURSIVE TrimStart(_)
TrimStart(s) == IF s # <<>> /\ Head(s) = " " THEN TrimStart(Tail(s)) ELSE s
RECURSIVE TrimEnd(_)
TrimEnd(s) ==
    IF s # <<>> /\ s[Len(s)] = " " THEN TrimEnd(SubSeq(s, 1, Len(s) - 1)) ELSE s
Trim(s) == TrimEnd(TrimStart(s))

TextInputs == {<<" ">>, <<" ", "m", " ">>}

\* JSON.stringify drops the properties whose value is undefined; reading a
\* property that JSON.parse did not produce gives undefined.
JsonStringifyTodo(t) ==
    [k \in {k \in DOMAIN t : k \in RequiredKeys \/ t[k] # Undefined} |-> t[k]]
JsonStringify(ts) == [i \in 1..Len(ts) |-> JsonStringifyTodo(ts[i])]
JsonParseTodo(o) ==
    [k \in RequiredKeys \cup OptionalKeys |->
        IF k \in DOMAIN o THEN o[k] ELSE Undefined]
JsonParse(str) == [i \in 1..Len(str) |-> JsonParseTodo(str[i])]

\* localStorage.getItem(LS_KEY): null, a string JSON.parse rejects, or a
\* serialized collection.
NoItem == <<"null">>
Corrupt == <<"corrupt">>
Item(str) == <<"item", str>>

(***************************************************************************)
(* Firestore mappers.  A document maps each field to null or Val(v);       *)
(* serverTimestamp() is a sentinel the server resolves.                    *)
(***************************************************************************)
ServerTimestamp == <<"serverTimestamp">>

\* Mutant of toFirestoreTodo: the due day is not written.
toFirestoreTodoWithoutDue(t) ==
    [text        |-> Val(t.text),
     done        |-> Val(t.done),
     createdAt   |-> Val(t.createdAt),
     category    |-> Val(t.category),
     doneAt      |-> Coalesce(t.doneAt, Null),
     doneDay     |-> Coalesce(t.doneDay, Null),
     dueDay      |-> Null,
     workoutPart |-> Coalesce(t.workoutPart, Null),
     updatedAt   |-> ServerTimestamp]

toFirestoreTodo(t) ==
    [text        |-> Val(t.text),
     done        |-> Val(t.done),
     createdAt   |-> Val(t.createdAt),
     category    |-> Val(t.category),
     doneAt      |-> Coalesce(t.doneAt, Null),
     doneDay     |-> Coalesce(t.doneDay, Null),
     dueDay      |-> Coalesce(t.dueDay, Null),
     workoutPart |-> Coalesce(t.workoutPart, Null),
     updatedAt   |-> ServerTimestamp]

\* data?.k
Field(data, k) == IF k \in DOMAIN data THEN data[k] ELSE Undefined

fromFirestoreTodo(id, data, nowMs) ==
    [id          |-> id,
     text        |-> ValOf(Coalesce(Field(data, "text"), Val(<<>>))),
     done        |-> ValOf(Coalesce(Field(data, "done"), Val(FALSE))),
     createdAt   |-> ValOf(Coalesce(Field(data, "createdAt"), Val(nowMs))),
     category    |-> ValOf(Coalesce(Field(data, "category"), Val("daily"))),
     doneAt      |-> IF IsNullish(Field(data, "doneAt")) THEN Undefined
                     ELSE Field(data, "doneAt"),
     doneDay     |-> IF IsNullish(Field(data, "doneDay")) THEN Undefined
                     ELSE Field(data, "doneDay"),
     dueDay      |-> IF IsNullish(Field(data, "dueDay")) THEN Undefined
                     ELSE Field(data, "dueDay"),
     workoutPart |-> IF IsNullish(Field(data, "workoutPart")) THEN Undefined
                     ELSE Field(data, "workoutPart")]

(***************************************************************************)
(* State of the Home component and of its collaborators.                   *)
(***************************************************************************)
VARIABLES
    phase,       \* "init" before the mount effects, "mounted", or "crashed"
    user,        \* useState<User | null>: NoUser or a uid
    category,    \* useState<Category>
    todos,       \* useState<Todo[]>
    loaded,      \* useState(false)
    syncing,     \* useState(false)
    cache,       \* localStorage[LS_KEY]
    remote,      \* users/{uid}/todos: per user, documents [id, data] in id order
    fetches,     \* getDocs calls in flight: [uid, read, docs]
    writes,      \* setDoc / updateDoc calls in flight: [kind, uid, id, data]
    deletes,     \* deleteDoc calls in flight: [uid, id, rest]
    now,         \* the device clock, Date.now()
    nextId       \* the next identifier crypto.randomUUID() returns

storeVars == <<phase, user, category, todos, loaded, syncing, cache, remote,
               fetches, writes, deletes, now, nextId, scope>>

SeedId == 0
AllIds == SeedId..MaxIds

Ids(ts) == {ts[i].id : i \in 1..Len(ts)}
Find(ts, id) == ts[CHOOSE i \in 1..Len(ts) : ts[i].id = id]

\* A task a previous session left behind (created and, if done, completed
\* the day before BaseDay).
SeedTodo(done) ==
    [id |-> SeedId, text |-> <<"s">>, done |-> done, createdAt |-> -1,
     category |-> "daily",
     doneAt |-> IF done THEN Val(-1) ELSE Undefined,
     doneDay |-> IF done THEN Val(dayKey(-1)) ELSE Undefined,
     dueDay |-> Undefined, workoutPart |-> Undefined]

(***************************************************************************)
(* The remote document store.                                              *)
(***************************************************************************)
HasDoc(docs, id) == \E i \in 1..Len(docs) : docs[i].id = id
DocOf(docs, id) == docs[CHOOSE i \in 1..Len(docs) : docs[i].id = id].data
RemoveDoc(docs, id) == SelectSeq(docs, LAMBDA d : d.id # id)
MergeFields(old, new) ==
    [k \in DOMAIN old \cup DOMAIN new |-> IF k \in DOMAIN new THEN new[k] ELSE old[k]]
\* The server replaces the serverTimestamp() sentinel by its own time, which
\* the client never reads.
ServerTime == Val("server time")
Resolve(data) == [data EXCEPT !.updatedAt = ServerTime]
\* setDoc(ref, data, {merge: true}) and updateDoc(ref, data) on an existing
\* document: the fields given replace the stored ones.
PutDoc(docs, id, data) ==
    LET merged == IF HasDoc(docs, id) THEN MergeFields(DocOf(docs, id), data) ELSE data
    IN  SelectSeq(docs, LAMBDA d : d.id < id)
            \o <<[id |-> id, data |-> merged]>>
            \o SelectSeq(docs, LAMBDA d : d.id > id)

\* The model lets a call be issued only while fewer than scope allows are in
\* flight.
CanFetch == BagCardinality(fetches) < scope.fetches
CanWrite == BagCardinality(writes) + BagCardinality(deletes) < scope.writes
One(x) == SetToBag({x})

(***************************************************************************)
(* Effects of Home.                                                        *)
(***************************************************************************)
\* Mutant of PersistEffect: the effect runs only when `loaded` changes.
PersistOnLoadOnly(ld, ts, c) == IF ld /\ ~loaded THEN Item(JsonStringify(ts)) ELSE c

\* useEffect [todos, loaded]: persist the collection to the local cache.
PersistEffect(ld, ts, c) == IF ld THEN Item(JsonStringify(ts)) ELSE c

\* fresh.sort((a, b) => b.createdAt - a.createdAt): a stable sort.
RECURSIVE InsertByCreated(_, _)
InsertByCreated(sorted, t) ==
    IF sorted = <<>> THEN <<t>>
    ELSE IF Head(sorted).createdAt >= t.createdAt
         THEN <<Head(sorted)>> \o InsertByCreated(Tail(sorted), t)
         ELSE <<t>> \o sorted
RECURSIVE SortByCreatedDesc(_)
SortByCreatedDesc(ts) ==
    IF ts = <<>> THEN <<>>
    ELSE InsertByCreated(SortByCreatedDesc(SubSeq(ts, 1, Len(ts) - 1)), ts[Len(ts)])

\* Mutant of FreshTodos: the fetched tasks are left in the server's order.
FreshTodosUnsorted(docs, nowMs) ==
    [i \in 1..Len(docs) |-> fromFirestoreTodo(docs[i].id, docs[i].data, nowMs)]

\* snap.forEach(d => fresh.push(fromFirestoreTodo(d.id, d.data()))); sort.
FreshTodos(docs, nowMs) ==
    SortByCreatedDesc([i \in 1..Len(docs) |-> fromFirestoreTodo(docs[i].id, docs[i].data, nowMs)])

\* Mutant of Subscribed: the user is known before the mount effects run.
SubscribedBeforeMount == phase \in {"init", "mounted"}

\* The auth callback is subscribed by the first mount effect.
Subscribed == phase = "mounted"

(***************************************************************************)
(* The weekly workout plan and its debounced save; the derived statistics  *)
(* of the last render.                                                     *)
(***************************************************************************)
VARIABLES
    plan,          \* useState<WorkoutPlan>
    planLoaded,    \* useState(false)
    savePlanTimer, \* useRef<number | null>: the handle of the last timer set
    timers,        \* pending window.setTimeout callbacks: [handle, at, uid, plan]
    nextTimer,     \* the next handle window.setTimeout returns
    settings,      \* users/{uid}/meta/settings: <<>> or <<workoutPlan>>
    planFetches,   \* getDoc calls in flight: [uid, read, snap]
    planWrites,    \* setDoc calls on the settings document in flight: [uid, plan]
    lastEditAt,    \* the time of the last plan edit: <<>> or <<time>>
    ownPlans,      \* per user, the plans loaded from their settings or edited
                   \* while they were signed in
    view           \* the values the last render derived: [streak, values]

planVars == <<plan, planLoaded, savePlanTimer, timers, nextTimer, settings,
              planFetches, planWrites, lastEditAt, ownPlans>>

VARIABLES
    filter,        \* useState<Filter>("all")
    lists          \* the lists the last render derived: [visible, week]

listVars == <<filter, lists>>

\* Before the first render of the lists.
NoLists == [visible |-> <<>>, week |-> <<>>, byDay |-> <<>>, labels |-> <<>>]

VARIABLES
    calc           \* the helper call being evaluated: [fn, arg, out]

\* No helper call is being evaluated.
NoCall == [fn |-> "none"]

vars == <<storeVars, planVars, view, listVars, calc>>

(***************************************************************************)
(* Derived: category filtering.                                            *)
(***************************************************************************)
todosInCat(ts, cat) == SelectSeq(ts, LAMBDA t : t.category = cat)
doneCount(ts, cat) == Len(SelectSeq(todosInCat(ts, cat), LAMBDA t : t.done))

(***************************************************************************)
(* Mount: the effects of the first render.                                 *)
(***************************************************************************)
\* Mutant of Mount: the cached collection is not read; the persist effect
\* stores the initial empty collection.
MountSkipsCache ==
    /\ phase = "init"
    /\ phase' = "mounted"
    /\ todos' = todos
    /\ loaded' = TRUE
    /\ cache' = PersistEffect(loaded', todos', cache)
    /\ UNCHANGED <<user, category, syncing, remote, fetches, writes, deletes,
                   now, nextId, scope>>
    /\ UNCHANGED <<planVars, view, listVars, calc>>

\* The local-cache effect, then the persist effect of the render it causes.
Mount ==
    /\ phase = "init"
    /\ IF cache = Corrupt
       THEN \* JSON.parse throws out of the effect: the tree is torn down.
            /\ phase' = "crashed"
            /\ UNCHANGED <<todos, loaded, cache>>
       ELSE /\ phase' = "mounted"
            /\ todos' = IF cache = NoItem THEN todos ELSE JsonParse(cache[2])
            /\ loaded' = TRUE
            /\ cache' = PersistEffect(loaded', todos', cache)
    /\ UNCHANGED <<user, category, syncing, remote, fetches, writes, deletes,
                   now, nextId, scope>>
    /\ UNCHANGED <<planVars, view, listVars, calc>>

(***************************************************************************)
(* Authentication and the fetch of the user's tasks.                       *)
(***************************************************************************)
\* onAuthStateChanged callback: setUser(u); then the fetch-todos effect.
authStateChanged(u) ==
    /\ Subscribed
    /\ u # user
    /\ user' = u
    /\ IF u = NoUser
       THEN UNCHANGED <<syncing, fetches>>
       ELSE /\ CanFetch
            /\ syncing' = TRUE
            /\ fetches' = fetches (+) One([uid |-> u, read |-> FALSE, docs |-> <<>>])
    /\ UNCHANGED <<phase, category, todos, loaded, cache, remote, writes, deletes,
                   now, nextId, scope>>
    /\ UNCHANGED <<planVars, view, listVars, calc>>

\* The server answers getDocs with the documents it holds at that moment.
FetchRead(f) ==
    /\ phase = "mounted"
    /\ BagIn(f, fetches) /\ ~f.read
    /\ fetches' = (fetches (-) One(f))
                    (+) One([uid |-> f.uid, read |-> TRUE, docs |-> remote[f.uid]])
    /\ UNCHANGED <<phase, user, category, todos, loaded, syncing, cache, remote,
                   writes, deletes, now, nextId, scope>>
    /\ UNCHANGED <<planVars, view, listVars, calc>>

\* await getDocs resolves: setTodos(fresh); finally setSyncing(false).
FetchDone(f) ==
    /\ phase = "mounted"
    /\ BagIn(f, fetches) /\ f.read
    /\ fetches' = fetches (-) One(f)
    /\ todos' = FreshTodos(f.docs, now)
    /\ syncing' = FALSE
    /\ cache' = PersistEffect(loaded, todos', cache)
    /\ UNCHANGED <<phase, user, category, loaded, remote, writes, deletes, now, nextId, scope>>
    /\ UNCHANGED <<planVars, view, listVars, calc>>

\* await getDocs rejects: finally setSyncing(false).
FetchFail(f) ==
    /\ phase = "mounted"
    /\ BagIn(f, fetches) /\ ~f.read
    /\ fetches' = fetches (-) One(f)
    /\ syncing' = FALSE
    /\ UNCHANGED <<phase, user, category, todos, loaded, cache, remote, writes,
                   deletes, now, nextId, scope>>
    /\ UNCHANGED <<planVars, view, listVars, calc>>

(***************************************************************************)
(* Remote propagation: each helper returns early when no user is signed    *)
(* in, and otherwise issues one call.                                      *)
(***************************************************************************)
upsertRemote(u, todo, ws) ==
    IF u = NoUser THEN ws
    ELSE ws (+) One([kind |-> "setDoc", uid |-> u, id |-> todo.id,
                     data |-> toFirestoreTodo(todo)])

\* Mutant of patchRemote: the patch leaves doneDay out.
patchRemoteWithoutDoneDay(u, id, next, ws) ==
    IF u = NoUser THEN ws
    ELSE ws (+) One([kind |-> "updateDoc", uid |-> u, id |-> id,
                     data |-> [updatedAt |-> ServerTimestamp,
                               done      |-> Val(next.done),
                               doneAt    |-> Coalesce(next.doneAt, Null)]])

\* patchRemote(id, {done, doneAt, doneDay}): the three keys are in the patch.
patchRemote(u, id, next, ws) ==
    IF u = NoUser THEN ws
    ELSE ws (+) One([kind |-> "updateDoc", uid |-> u, id |-> id,
                     data |-> [updatedAt |-> ServerTimestamp,
                               done      |-> Val(next.done),
                               doneAt    |-> Coalesce(next.doneAt, Null),
                               doneDay   |-> Coalesce(next.doneDay, Null)]])

\* deleteRemote(id) for the first of ids; the loop awaits it before the next.
deleteRemote(u, ids, ds) ==
    IF u = NoUser \/ ids = <<>> THEN ds
    ELSE ds (+) One([uid |-> u, id |-> Head(ids), rest |-> Tail(ids)])

(***************************************************************************)
(* Actions of the user.                                                    *)
(***************************************************************************)
\* Mutant of NewTodo: every new task gets the same identifier.
NewTodoFixedId(id, trimmed, cat, due, part, nowMs) ==
    [id |-> SeedId, text |-> trimmed, done |-> FALSE, createdAt |-> nowMs,
     category |-> cat, doneAt |-> Undefined, doneDay |-> Undefined,
     dueDay |-> IF cat \in {"workout", "work"} THEN Val(due) ELSE Undefined,
     workoutPart |-> IF cat = "workout" THEN Val(part) ELSE Undefined]

\* Mutant of NewTodo: the body part of the form is stored in every category.
NewTodoPartEverywhere(id, trimmed, cat, due, part, nowMs) ==
    [id |-> id, text |-> trimmed, done |-> FALSE, createdAt |-> nowMs,
     category |-> cat, doneAt |-> Undefined, doneDay |-> Undefined,
     dueDay |-> IF cat \in {"workout", "work"} THEN Val(due) ELSE Undefined,
     workoutPart |-> Val(part)]

\* The task addTodo builds from the form: due date and body part by category.
NewTodo(id, trimmed, cat, due, part, nowMs) ==
    [id |-> id, text |-> trimmed, done |-> FALSE, createdAt |-> nowMs,
     category |-> cat, doneAt |-> Undefined, doneDay |-> Undefined,
     dueDay |-> IF cat \in {"workout", "work"} THEN Val(due) ELSE Undefined,
     workoutPart |-> IF cat = "workout" THEN Val(part) ELSE Undefined]

\* The form's due date: its initial value, the day of the first render.
DueInputs == {dayKey(0)}
\* The form's body part: its initial value.
PartInputs == {"chest"}
\* The day column of the weekly calendar an inline add is made in: the last.
InlineDayInputs == {weekKeysMonSun(now)[7]}

\* Mutant of AddRejected: the handlers do not look at the user.
AddRejectedOnlyWhenBlank(u, text) == Trim(text) = <<>>

\* The early returns of addTodo and addTodoInline: no user, or a blank text.
AddRejected(u, text) == u = NoUser \/ Trim(text) = <<>>

addTodo(text, due, part) ==
    /\ phase = "mounted"
    /\ IF AddRejected(user, text)
       THEN UNCHANGED <<todos, cache, writes, nextId>>
       ELSE /\ nextId <= MaxIds
            /\ CanWrite
            /\ LET newTodo == NewTodo(nextId, Trim(text), category, due, part, now)
               IN  /\ todos' = <<newTodo>> \o todos
                   /\ writes' = upsertRemote(user, newTodo, writes)
            /\ cache' = PersistEffect(loaded, todos', cache)
            /\ nextId' = nextId + 1
    /\ UNCHANGED <<phase, user, category, loaded, syncing, remote, fetches, deletes, now, scope>>
    /\ UNCHANGED <<planVars, view, listVars, calc>>

\* addTodoInline(day): the day is the due date; the body part comes from the
\* plan row of that weekday when enabled, else from the form.
addTodoInline(text, day, part) ==
    /\ phase = "mounted"
    /\ IF AddRejected(user, text)
       THEN UNCHANGED <<todos, cache, writes, nextId>>
       ELSE /\ nextId <= MaxIds
            /\ CanWrite
            /\ LET newTodo == NewTodo(nextId, Trim(text), category, day, part, now)
               IN  /\ todos' = <<newTodo>> \o todos
                   /\ writes' = upsertRemote(user, newTodo, writes)
            /\ cache' = PersistEffect(loaded, todos', cache)
            /\ nextId' = nextId + 1
    /\ UNCHANGED <<phase, user, category, loaded, syncing, remote, fetches, deletes, now, scope>>
    /\ UNCHANGED <<planVars, view, listVars, calc>>

\* Mutant of Toggled: un-doing a task keeps its doneDay.
ToggledKeepsDoneDay(current, nowMs) ==
    IF current.done
    THEN [current EXCEPT !.done = FALSE, !.doneAt = Undefined]
    ELSE [current EXCEPT !.done = TRUE, !.doneAt = Val(nowMs),
                         !.doneDay = Val(dayKey(nowMs))]

\* Mutant of Toggled: completing a task also stamps it as created now.
ToggledResetsCreatedAt(current, nowMs) ==
    IF current.done
    THEN [current EXCEPT !.done = FALSE, !.doneAt = Undefined, !.doneDay = Undefined]
    ELSE [current EXCEPT !.done = TRUE, !.doneAt = Val(nowMs),
                         !.doneDay = Val(dayKey(nowMs)), !.createdAt = nowMs]

\* The task toggleTodo puts in place of `current`.
Toggled(current, nowMs) ==
    IF current.done
    THEN [current EXCEPT !.done = FALSE, !.doneAt = Undefined, !.doneDay = Undefined]
    ELSE [current EXCEPT !.done = TRUE, !.doneAt = Val(nowMs),
                         !.doneDay = Val(dayKey(nowMs))]

\* The toggle button is disabled while no user is signed in.
toggleTodo(id) ==
    /\ phase = "mounted"
    /\ user # NoUser
    /\ IF id \notin Ids(todos)
       THEN UNCHANGED <<todos, cache, writes>>
       ELSE /\ CanWrite
            /\ LET next == Toggled(Find(todos, id), now)
               IN  /\ todos' = [i \in 1..Len(todos) |->
                                   IF todos[i].id = id THEN next ELSE todos[i]]
                   /\ writes' = patchRemote(user, id, next, writes)
            /\ cache' = PersistEffect(loaded, todos', cache)
    /\ UNCHANGED <<phase, user, category, loaded, syncing, remote, fetches, deletes,
                   now, nextId, scope>>
    /\ UNCHANGED <<planVars, view, listVars, calc>>

\* The delete button of a listed task; disabled while no user is signed in.
removeTodo(id) ==
    /\ phase = "mounted"
    /\ user # NoUser
    /\ id \in Ids(todos)
    /\ CanWrite
    /\ todos' = SelectSeq(todos, LAMBDA t : t.id # id)
    /\ deletes' = deleteRemote(user, <<id>>, deletes)
    /\ cache' = PersistEffect(loaded, todos', cache)
    /\ UNCHANGED <<phase, user, category, loaded, syncing, remote, fetches, writes,
                   now, nextId, scope>>
    /\ UNCHANGED <<planVars, view, listVars, calc>>

\* Mutant of clearDone: the done tasks of every category are removed.
clearDoneAnyCategory ==
    /\ phase = "mounted"
    /\ user # NoUser
    /\ doneCount(todos, category) # 0
    /\ CanWrite
    /\ LET done == SelectSeq(todosInCat(todos, category), LAMBDA t : t.done)
           ids  == [i \in 1..Len(done) |-> done[i].id]
       IN  /\ todos' = SelectSeq(todos, LAMBDA t : ~t.done)
           /\ deletes' = deleteRemote(user, ids, deletes)
    /\ cache' = PersistEffect(loaded, todos', cache)
    /\ UNCHANGED <<phase, user, category, loaded, syncing, remote, fetches, writes,
                   now, nextId, scope>>
    /\ UNCHANGED <<planVars, view, listVars, calc>>

\* "Clear done": disabled while no user is signed in or nothing is done.
clearDone ==
    /\ phase = "mounted"
    /\ user # NoUser
    /\ doneCount(todos, category) # 0
    /\ CanWrite
    /\ LET done == SelectSeq(todosInCat(todos, category), LAMBDA t : t.done)
           ids  == [i \in 1..Len(done) |-> done[i].id]
       IN  /\ todos' = SelectSeq(todos, LAMBDA t : ~(t.category = category /\ t.done))
           /\ deletes' = deleteRemote(user, ids, deletes)
    /\ cache' = PersistEffect(loaded, todos', cache)
    /\ UNCHANGED <<phase, user, category, loaded, syncing, remote, fetches, writes,
                   now, nextId, scope>>
    /\ UNCHANGED <<planVars, view, listVars, calc>>

setCategory(c) ==
    /\ phase = "mounted"
    /\ c # category
    /\ category' = c
    /\ UNCHANGED <<phase, user, todos, loaded, syncing, cache, remote, fetches, writes,
                   deletes, now, nextId, scope>>
    /\ UNCHANGED <<planVars, view, listVars, calc>>

(***************************************************************************)
(* Outcomes of the remote calls in flight.                                 *)
(***************************************************************************)
\* setDoc with merge creates or merges; updateDoc needs the document.
WriteOk(w) ==
    /\ phase = "mounted"
    /\ BagIn(w, writes)
    /\ w.kind = "updateDoc" => HasDoc(remote[w.uid], w.id)
    /\ writes' = writes (-) One(w)
    /\ remote' = [remote EXCEPT ![w.uid] = PutDoc(@, w.id, Resolve(w.data))]
    /\ UNCHANGED <<phase, user, category, todos, loaded, syncing, cache, fetches,
                   deletes, now, nextId, scope>>
    /\ UNCHANGED <<planVars, view, listVars, calc>>

\* Mutant of WriteFail: the handler rolls the optimistic change back.
WriteFailRollsBack(w) ==
    /\ phase = "mounted"
    /\ BagIn(w, writes)
    /\ writes' = writes (-) One(w)
    /\ todos' = SelectSeq(todos, LAMBDA t : t.id # w.id)
    /\ cache' = PersistEffect(loaded, todos', cache)
    /\ UNCHANGED <<phase, user, category, loaded, syncing, remote,
                   fetches, deletes, now, nextId, scope>>
    /\ UNCHANGED <<planVars, view, listVars, calc>>

\* The call rejects; the handler's empty catch swallows it.
WriteFail(w) ==
    /\ phase = "mounted"
    /\ BagIn(w, writes)
    /\ writes' = writes (-) One(w)
    /\ UNCHANGED <<phase, user, category, todos, loaded, syncing, cache, remote,
                   fetches, deletes, now, nextId, scope>>
    /\ UNCHANGED <<planVars, view, listVars, calc>>

\* deleteDoc resolves; clearDone's loop goes on to the next id.
DeleteOk(d) ==
    /\ phase = "mounted"
    /\ BagIn(d, deletes)
    /\ remote' = [remote EXCEPT ![d.uid] = RemoveDoc(@, d.id)]
    /\ deletes' = deleteRemote(d.uid, d.rest, deletes (-) One(d))
    /\ UNCHANGED <<phase, user, category, todos, loaded, syncing, cache, fetches,
                   writes, now, nextId, scope>>
    /\ UNCHANGED <<planVars, view, listVars, calc>>

\* deleteDoc rejects: the exception leaves the loop and is swallowed.
DeleteFail(d) ==
    /\ phase = "mounted"
    /\ BagIn(d, deletes)
    /\ deletes' = deletes (-) One(d)
    /\ UNCHANGED <<phase, user, category, todos, loaded, syncing, cache, remote,
                   fetches, writes, now, nextId, scope>>
    /\ UNCHANGED <<planVars, view, listVars, calc>>

(***************************************************************************)
(* The device clock.                                                       *)
(***************************************************************************)
TicksTaken == (now \div MsPerDay) + (now % MsPerDay)

Tick(dt) ==
    /\ TicksTaken < MaxTicks
    /\ now' = now + dt
    /\ UNCHANGED <<phase, user, category, todos, loaded, syncing, cache, remote,
                   fetches, writes, deletes, nextId, scope>>
    /\ UNCHANGED <<planVars, view, listVars, calc>>

(***************************************************************************)
(* The task store.                                                         *)
(***************************************************************************)
SeedDocs(done) ==
    <<[id |-> SeedId, data |-> Resolve(toFirestoreTodo(SeedTodo(done)))]>>

defaultPlan ==
    [mon |-> [enabled |-> FALSE, part |-> "chest"],
     tue |-> [enabled |-> FALSE, part |-> "back"],
     wed |-> [enabled |-> FALSE, part |-> "legs"],
     thu |-> [enabled |-> FALSE, part |-> "shoulders"],
     fri |-> [enabled |-> FALSE, part |-> "arms"],
     sat |-> [enabled |-> FALSE, part |-> "core"],
     sun |-> [enabled |-> FALSE, part |-> "cardio"]]

PlanInit ==
    /\ plan = defaultPlan
    /\ planLoaded = FALSE
    /\ savePlanTimer = 0
    /\ timers = {}
    /\ nextTimer = 1
    /\ settings = [u \in Users |-> <<>>]
    /\ planFetches = EmptyBag
    /\ planWrites = EmptyBag
    /\ lastEditAt = <<>>
    /\ ownPlans = [u \in Users |-> {}]

NoView == [streak |-> 0, values |-> <<>>]

Init ==
    /\ scope = [accounts |-> {"alice"}, fetches |-> MaxFetches, writes |-> MaxWrites,
               day0 |-> BaseDay, tz |-> 0]
    /\ phase = "init"
    /\ user = NoUser
    /\ category = "daily"
    /\ todos = <<>>
    /\ loaded = FALSE
    /\ syncing = FALSE
    /\ cache \in {NoItem, Corrupt, Item(JsonStringify(<<SeedTodo(FALSE)>>))}
    /\ remote \in {[u \in Users |-> IF u = "alice" THEN docs ELSE <<>>] :
                      docs \in {<<>>, SeedDocs(FALSE)}}
    /\ fetches = EmptyBag
    /\ writes = EmptyBag
    /\ deletes = EmptyBag
    /\ now = 0
    /\ nextId = 1
    /\ PlanInit
    /\ view = NoView
    /\ filter = "all"
    /\ lists = NoLists
    /\ calc = NoCall

Next ==
    \/ Mount
    \/ \E u \in scope.accounts \cup {NoUser} : authStateChanged(u)
    \/ \E f \in BagToSet(fetches) : FetchRead(f)
    \/ \E f \in BagToSet(fetches) : FetchDone(f)
    \/ \E f \in BagToSet(fetches) : FetchFail(f)
    \/ \E text \in TextInputs, due \in DueInputs, part \in PartInputs :
          addTodo(text, due, part)
    \/ \E text \in TextInputs, day \in InlineDayInputs, part \in PartInputs :
          addTodoInline(text, day, part)
    \/ \E id \in AllIds : toggleTodo(id)
    \/ \E id \in AllIds : removeTodo(id)
    \/ clearDone
    \/ \E c \in Categories : setCategory(c)
    \/ \E w \in BagToSet(writes) : WriteOk(w)
    \/ \E w \in BagToSet(writes) : WriteFail(w)
    \/ \E d \in BagToSet(deletes) : DeleteOk(d)
    \/ \E d \in BagToSet(deletes) : DeleteFail(d)
    \/ \E dt \in {MsPerDay} : Tick(dt)

Spec == Init /\ [][Next]_vars

(***************************************************************************)
(* The task store from two later moments: right after sign-in, with the    *)
(* fetch in flight, and after that fetch, with nothing in flight.          *)
(***************************************************************************)
\* What the user does with the tasks.
Mutations ==
    \/ \E text \in TextInputs, due \in DueInputs, part \in PartInputs :
          addTodo(text, due, part)
    \/ \E text \in TextInputs, day \in InlineDayInputs, part \in PartInputs :
          addTodoInline(text, day, part)
    \/ \E id \in AllIds : toggleTodo(id)
    \/ \E id \in AllIds : removeTodo(id)
    \/ clearDone
    \/ \E c \in Categories : setCategory(c)

\* The component is mounted with the cached seed task, the account holds the
\* same task, and the auth callback has just delivered the user: the fetch
\* of the sign-in is in flight.
RaceInit ==
    /\ scope = [accounts |-> {"alice"}, fetches |-> MaxFetches, writes |-> MaxSyncWrites,
                day0 |-> BaseDay, tz |-> 0]
    /\ phase = "mounted"
    /\ user = "alice"
    /\ category = "daily"
    /\ \E done \in BOOLEAN :
          /\ todos = <<SeedTodo(done)>>
          /\ remote = [u \in Users |-> IF u = "alice" THEN SeedDocs(done) ELSE <<>>]
    /\ loaded = TRUE
    /\ syncing = TRUE
    /\ cache = PersistEffect(TRUE, todos, NoItem)
    /\ fetches = One([uid |-> "alice", read |-> FALSE, docs |-> <<>>])
    /\ writes = EmptyBag
    /\ deletes = EmptyBag
    /\ now = 0
    /\ nextId = 1
    /\ PlanInit
    /\ view = NoView
    /\ filter = "all"
    /\ lists = NoLists
    /\ calc = NoCall

RaceNext ==
    \/ Mutations
    \/ \E f \in BagToSet(fetches) : FetchRead(f)
    \/ \E f \in BagToSet(fetches) : FetchDone(f)
    \/ \E f \in BagToSet(fetches) : FetchFail(f)
    \/ \E w \in BagToSet(writes) : WriteOk(w)
    \/ \E w \in BagToSet(writes) : WriteFail(w)
    \/ \E d \in BagToSet(deletes) : DeleteOk(d)
    \/ \E d \in BagToSet(deletes) : DeleteFail(d)

SpecRace == RaceInit /\ [][RaceNext]_vars

\* The fetch of the sign-in has completed: the collection is what the
\* account holds and no call is in flight.
SyncedInit ==
    /\ scope = [accounts |-> {"alice"}, fetches |-> MaxFetches, writes |-> MaxSyncWrites,
                day0 |-> BaseDay, tz |-> 0]
    /\ phase = "mounted"
    /\ user = "alice"
    /\ category = "daily"
    /\ now = 0
    /\ \E docs \in {<<>>, SeedDocs(FALSE), SeedDocs(TRUE)} :
          /\ remote = [u \in Users |-> IF u = "alice" THEN docs ELSE <<>>]
          /\ todos = FreshTodos(docs, now)
    /\ loaded = TRUE
    /\ syncing = FALSE
    /\ cache = PersistEffect(TRUE, todos, NoItem)
    /\ fetches = EmptyBag
    /\ writes = EmptyBag
    /\ deletes = EmptyBag
    /\ nextId = 1
    /\ PlanInit
    /\ view = NoView
    /\ filter = "all"
    /\ lists = NoLists
    /\ calc = NoCall

\* Every remote call succeeds, in whatever order the store applies them.
SyncedNext ==
    \/ Mutations
    \/ \E w \in BagToSet(writes) : WriteOk(w)
    \/ \E d \in BagToSet(deletes) : DeleteOk(d)

SpecSynced == SyncedInit /\ [][SyncedNext]_vars

\* Remote calls may also fail.
FaultyNext ==
    \/ SyncedNext
    \/ \E w \in BagToSet(writes) : WriteFail(w)
    \/ \E d \in BagToSet(deletes) : DeleteFail(d)

SpecFaulty == SyncedInit /\ [][FaultyNext]_vars

(***************************************************************************)
(* The task store while the signed-in user changes: two accounts, and the  *)
(* fetch of one sign-in still in flight when the next one starts.          *)
(***************************************************************************)
\* The task the second account holds.
OtherTodo == [SeedTodo(FALSE) EXCEPT !.text = <<"o">>]
OtherDocs == <<[id |-> SeedId, data |-> Resolve(toFirestoreTodo(OtherTodo))]>>

\* The component is mounted and nobody is signed in yet; each account holds
\* one task or none.
SwitchInit ==
    /\ scope = [accounts |-> Users, fetches |-> MaxUserFetches, writes |-> 0,
                day0 |-> BaseDay, tz |-> 0]
    /\ phase = "mounted"
    /\ user = NoUser
    /\ category = "daily"
    /\ todos = <<>>
    /\ loaded = TRUE
    /\ syncing = FALSE
    /\ cache = PersistEffect(TRUE, todos, NoItem)
    /\ \E a \in {<<>>, SeedDocs(FALSE)}, b \in {<<>>, OtherDocs} :
          remote = [u \in Users |-> IF u = "alice" THEN a ELSE b]
    /\ fetches = EmptyBag
    /\ writes = EmptyBag
    /\ deletes = EmptyBag
    /\ now = 0
    /\ nextId = 1
    /\ PlanInit
    /\ view = NoView
    /\ filter = "all"
    /\ lists = NoLists
    /\ calc = NoCall

\* Sign-ins and sign-outs, and every fetch completes.
SwitchNext ==
    \/ \E u \in scope.accounts \cup {NoUser} : authStateChanged(u)
    \/ \E f \in BagToSet(fetches) : FetchRead(f)
    \/ \E f \in BagToSet(fetches) : FetchDone(f)

SpecSwitch == SwitchInit /\ [][SwitchNext]_vars

(***************************************************************************)
(* The task store with a fetched collection of several tasks: toggles,     *)
(* deletes and clear-done.                                                 *)
(***************************************************************************)
FrameIds == 0..(MaxFrameTasks - 1)
FrameCategories == {"daily", "workout"}
Absent == <<"absent">>
\* What the account holds for an id: nothing, or a task <<category, done>>.
FrameKinds == {Absent} \cup (FrameCategories \X BOOLEAN)

\* A task an earlier session added, and completed if done.
FrameTodo(id, cat, done) ==
    LET t == NewTodo(id, <<"t">>, cat, dayKey(0), "chest", -1 - id)
    IN  IF done THEN Toggled(t, -1) ELSE t

\* The documents of an account, in id order.
FrameDocs(f) ==
    LET all == [i \in 1..MaxFrameTasks |-> i - 1]
        ids == SelectSeq(all, LAMBDA id : f[id] # Absent)
    IN  [i \in 1..Len(ids) |->
            [id   |-> ids[i],
             data |-> Resolve(toFirestoreTodo(FrameTodo(ids[i], f[ids[i]][1], f[ids[i]][2])))]]

\* The user is signed in and the fetch of the sign-in has completed.
FramesInit ==
    /\ scope = [accounts |-> {"alice"}, fetches |-> MaxFetches, writes |-> MaxWrites,
                day0 |-> BaseDay, tz |-> 0]
    /\ phase = "mounted"
    /\ user = "alice"
    /\ category = "daily"
    /\ now = 0
    /\ \E f \in [FrameIds -> FrameKinds] :
          /\ remote = [u \in Users |-> IF u = "alice" THEN FrameDocs(f) ELSE <<>>]
          /\ todos = FreshTodos(FrameDocs(f), now)
    /\ loaded = TRUE
    /\ syncing = FALSE
    /\ cache = PersistEffect(TRUE, todos, NoItem)
    /\ fetches = EmptyBag
    /\ writes = EmptyBag
    /\ deletes = EmptyBag
    /\ nextId = MaxFrameTasks
    /\ PlanInit
    /\ view = NoView
    /\ filter = "all"
    /\ lists = NoLists
    /\ calc = NoCall

FramesNext ==
    \/ \E id \in FrameIds : toggleTodo(id)
    \/ \E id \in FrameIds : removeTodo(id)
    \/ clearDone
    \/ \E c \in Categories : setCategory(c)
    \/ \E w \in BagToSet(writes) : WriteOk(w)
    \/ \E w \in BagToSet(writes) : WriteFail(w)
    \/ \E d \in BagToSet(deletes) : DeleteOk(d)
    \/ \E d \in BagToSet(deletes) : DeleteFail(d)

SpecFrames == FramesInit /\ [][FramesNext]_vars

(***************************************************************************)
(* The weekly workout plan: fetch at sign-in, edits, debounced save.       *)
(***************************************************************************)
storeIdle ==
    UNCHANGED <<phase, category, todos, loaded, syncing, cache, remote, fetches,
                writes, deletes, nextId, scope, view, listVars, calc>>

weekdayOrder == <<"mon", "tue", "wed", "thu", "fri", "sat", "sun">>
WeekdayKeys == {weekdayOrder[i] : i \in 1..7}

\* useEffect [plan, user, planLoaded]: the cleanup of the previous run clears
\* the timer the ref names; with a user and a loaded plan the body clears it
\* again and sets a new timer that captures the user and the plan.
AutoSaveEffect(u, ld, p, ts) ==
    LET cleared == ts \ {t \in ts : t.handle = savePlanTimer}
    IN  IF u = NoUser \/ ~ld THEN cleared
        ELSE cleared \cup {[handle |-> nextTimer, at |-> now, uid |-> u, plan |-> p]}

\* savePlanTimer.current and the handle counter after the effect ran.
TimerRef(u, ld) == IF u = NoUser \/ ~ld THEN savePlanTimer ELSE nextTimer
TimerCount(u, ld) == IF u = NoUser \/ ~ld THEN nextTimer ELSE nextTimer + 1
CanSetTimer == nextTimer <= MaxTimers

\* onAuthStateChanged callback: setUser(u); then the fetch-plan effect and
\* the auto-save effect.
authStateChangedPlan(u) ==
    /\ Subscribed
    /\ u # user
    /\ CanSetTimer
    /\ user' = u
    /\ planFetches' = IF u = NoUser THEN planFetches
                      ELSE planFetches (+) One([uid |-> u, read |-> FALSE, snap |-> <<>>])
    /\ u # NoUser => BagCardinality(planFetches) < scope.fetches
    /\ timers' = AutoSaveEffect(u, planLoaded, plan, timers)
    /\ savePlanTimer' = TimerRef(u, planLoaded)
    /\ nextTimer' = TimerCount(u, planLoaded)
    /\ lastEditAt' = <<>>
    /\ UNCHANGED ownPlans
    /\ UNCHANGED <<plan, planLoaded, settings, planWrites, now>>
    /\ storeIdle

\* The server answers getDoc with the settings document it holds.
PlanFetchRead(f) ==
    /\ BagIn(f, planFetches) /\ ~f.read
    /\ planFetches' = (planFetches (-) One(f))
                        (+) One([uid |-> f.uid, read |-> TRUE, snap |-> settings[f.uid]])
    /\ UNCHANGED <<user, plan, planLoaded, savePlanTimer, timers, nextTimer, settings,
                   planWrites, lastEditAt, ownPlans, now>>
    /\ storeIdle

\* merged = {...defaultPlan}, each row of the stored plan copied over it.
MergedPlan(p) == [k \in WeekdayKeys |-> IF k \in DOMAIN p THEN p[k] ELSE defaultPlan[k]]

\* await getDoc resolves: setPlan(merged) when the document holds a plan;
\* finally setPlanLoaded(true).  The auto-save effect runs when either changed.
PlanFetchDone(f) ==
    /\ BagIn(f, planFetches) /\ f.read
    /\ CanSetTimer
    /\ planFetches' = planFetches (-) One(f)
    /\ plan' = IF f.snap = <<>> THEN plan ELSE MergedPlan(f.snap[1])
    /\ planLoaded' = TRUE
    /\ IF f.snap # <<>> \/ ~planLoaded
       THEN /\ timers' = AutoSaveEffect(user, TRUE, plan', timers)
            /\ savePlanTimer' = TimerRef(user, TRUE)
            /\ nextTimer' = TimerCount(user, TRUE)
       ELSE UNCHANGED <<timers, savePlanTimer, nextTimer>>
    /\ ownPlans' = IF f.snap = <<>> THEN ownPlans
                   ELSE [ownPlans EXCEPT ![f.uid] = @ \cup {MergedPlan(f.snap[1])}]
    /\ UNCHANGED <<user, settings, planWrites, lastEditAt, now>>
    /\ storeIdle

\* await getDoc rejects: finally setPlanLoaded(true).
PlanFetchFail(f) ==
    /\ BagIn(f, planFetches) /\ ~f.read
    /\ CanSetTimer
    /\ planFetches' = planFetches (-) One(f)
    /\ planLoaded' = TRUE
    /\ IF ~planLoaded
       THEN /\ timers' = AutoSaveEffect(user, TRUE, plan, timers)
            /\ savePlanTimer' = TimerRef(user, TRUE)
            /\ nextTimer' = TimerCount(user, TRUE)
       ELSE UNCHANGED <<timers, savePlanTimer, nextTimer>>
    /\ UNCHANGED <<user, plan, settings, planWrites, lastEditAt, ownPlans, now>>
    /\ storeIdle

\* A plan edit (its controls are disabled while no user is signed in):
\* setPlan, then the auto-save effect.
EditPlan(newPlan) ==
    /\ phase = "mounted"
    /\ user # NoUser
    /\ CanSetTimer
    /\ plan' = newPlan
    /\ timers' = AutoSaveEffect(user, planLoaded, plan', timers)
    /\ savePlanTimer' = TimerRef(user, planLoaded)
    /\ nextTimer' = TimerCount(user, planLoaded)
    /\ lastEditAt' = <<[at |-> now, plan |-> newPlan, loaded |-> planLoaded]>>
    /\ ownPlans' = [ownPlans EXCEPT ![user] = @ \cup {newPlan}]
    /\ UNCHANGED <<user, planLoaded, settings, planFetches, planWrites, now>>
    /\ storeIdle

togglePlanDay(day) ==
    EditPlan([plan EXCEPT ![day] = [@ EXCEPT !.enabled = ~plan[day].enabled]])

setPlanPart(day, part) ==
    EditPlan([plan EXCEPT ![day] = [@ EXCEPT !.part = part]])

\* A timer fires no earlier than its delay after it was set.
TimerDue(t) == now >= t.at + SaveDelay

\* The timer callback: setDoc(settingsRef, {workoutPlan: plan, ...}, merge).
SavePlanTimerFires(t) ==
    /\ t \in timers
    /\ TimerDue(t)
    /\ BagCardinality(planWrites) < scope.writes
    /\ timers' = timers \ {t}
    /\ planWrites' = planWrites (+) One([uid |-> t.uid, plan |-> t.plan])
    /\ UNCHANGED <<user, plan, planLoaded, savePlanTimer, nextTimer, settings,
                   planFetches, lastEditAt, ownPlans, now>>
    /\ storeIdle

PlanWriteOk(w) ==
    /\ BagIn(w, planWrites)
    /\ planWrites' = planWrites (-) One(w)
    /\ settings' = [settings EXCEPT ![w.uid] = <<w.plan>>]
    /\ UNCHANGED <<user, plan, planLoaded, savePlanTimer, timers, nextTimer,
                   planFetches, lastEditAt, ownPlans, now>>
    /\ storeIdle

\* setDoc rejects; the callback's empty catch swallows it.
PlanWriteFail(w) ==
    /\ BagIn(w, planWrites)
    /\ planWrites' = planWrites (-) One(w)
    /\ UNCHANGED <<user, plan, planLoaded, savePlanTimer, timers, nextTimer, settings,
                   planFetches, lastEditAt, ownPlans, now>>
    /\ storeIdle

PlanTick ==
    /\ now + PlanStep <= MaxPlanSteps * PlanStep
    /\ now' = now + PlanStep
    /\ UNCHANGED <<user, planVars>>
    /\ storeIdle

\* A plan a previous session saved.
StoredPlan == [defaultPlan EXCEPT !.mon = [enabled |-> TRUE, part |-> "legs"]]
EditDays == {"mon"}
PlanPartInputs == {"legs"}

PlanSpecInit ==
    /\ scope = [accounts |-> {"alice"}, fetches |-> MaxFetches, writes |-> MaxWrites,
               day0 |-> BaseDay, tz |-> 0]
    /\ phase = "mounted"
    /\ user = NoUser
    /\ category = "daily"
    /\ todos = <<>>
    /\ loaded = TRUE
    /\ syncing = FALSE
    /\ cache = PersistEffect(TRUE, <<>>, NoItem)
    /\ remote = [u \in Users |-> <<>>]
    /\ fetches = EmptyBag
    /\ writes = EmptyBag
    /\ deletes = EmptyBag
    /\ now = 0
    /\ nextId = 1
    /\ plan = defaultPlan
    /\ planLoaded = FALSE
    /\ savePlanTimer = 0
    /\ timers = {}
    /\ nextTimer = 1
    /\ settings \in {[u \in Users |-> IF u = "alice" THEN d ELSE <<>>] :
                        d \in {<<>>, <<StoredPlan>>}}
    /\ planFetches = EmptyBag
    /\ planWrites = EmptyBag
    /\ lastEditAt = <<>>
    /\ ownPlans = [u \in Users |-> {}]
    /\ view = NoView
    /\ filter = "all"
    /\ lists = NoLists
    /\ calc = NoCall

PlanNext ==
    \/ \E u \in scope.accounts \cup {NoUser} : authStateChangedPlan(u)
    \/ \E f \in BagToSet(planFetches) : PlanFetchRead(f)
    \/ \E f \in BagToSet(planFetches) : PlanFetchDone(f)
    \/ \E f \in BagToSet(planFetches) : PlanFetchFail(f)
    \/ \E day \in EditDays : togglePlanDay(day)
    \/ \E day \in EditDays, part \in PlanPartInputs : setPlanPart(day, part)
    \/ \E t \in timers : SavePlanTimerFires(t)
    \/ \E w \in BagToSet(planWrites) : PlanWriteOk(w)
    \/ \E w \in BagToSet(planWrites) : PlanWriteFail(w)
    \/ PlanTick

SpecPlan == PlanSpecInit /\ [][PlanNext]_vars

\* The plan with two accounts: the second account has saved no plan, or a
\* plan of its own.
OtherPlan == [defaultPlan EXCEPT !.tue = [enabled |-> TRUE, part |-> "arms"]]

PlanSwitchInit ==
    /\ scope = [accounts |-> Users, fetches |-> MaxFetches, writes |-> MaxWrites,
                day0 |-> BaseDay, tz |-> 0]
    /\ phase = "mounted"
    /\ user = NoUser
    /\ category = "daily"
    /\ todos = <<>>
    /\ loaded = TRUE
    /\ syncing = FALSE
    /\ cache = PersistEffect(TRUE, <<>>, NoItem)
    /\ remote = [u \in Users |-> <<>>]
    /\ fetches = EmptyBag
    /\ writes = EmptyBag
    /\ deletes = EmptyBag
    /\ now = 0
    /\ nextId = 1
    /\ plan = defaultPlan
    /\ planLoaded = FALSE
    /\ savePlanTimer = 0
    /\ timers = {}
    /\ nextTimer = 1
    /\ settings \in {[u \in Users |-> IF u = "alice" THEN <<StoredPlan>> ELSE d] :
                        d \in {<<>>, <<OtherPlan>>}}
    /\ planFetches = EmptyBag
    /\ planWrites = EmptyBag
    /\ lastEditAt = <<>>
    /\ ownPlans = [u \in Users |-> {}]
    /\ view = NoView
    /\ filter = "all"
    /\ lists = NoLists
    /\ calc = NoCall

SpecPlanSwitch == PlanSwitchInit /\ [][PlanNext]_vars

(***************************************************************************)
(* Derived statistics: the streak and the 14-day cumulative series.        *)
(***************************************************************************)
\* doneDays: the doneDay of every done task that has one.
doneDaysOf(ts) ==
    {ValOf(ts[i].doneDay) : i \in {j \in DOMAIN ts : ts[j].done /\ IsVal(ts[j].doneDay)}}

\* The while loop of streak: one step back per day found in doneDays.
RECURSIVE StreakFrom(_, _)
StreakFrom(doneDays, d) ==
    IF dayKey(d) \notin doneDays THEN 0
    ELSE 1 + StreakFrom(doneDays, addDays(d, -1))

\* Mutant of streak: a day counts when any task, done or not, names it.
streakOfAnyTask(ts, nowMs) ==
    StreakFrom({ValOf(ts[i].doneDay) : i \in {j \in DOMAIN ts : IsVal(ts[j].doneDay)}}, nowMs)

streak(ts, nowMs) == StreakFrom(doneDaysOf(ts), nowMs)

\* keys: the day keys of the window, oldest first (i = 13 down to 0).
last14Keys(end) ==
    [i \in 1..WindowDays |-> dayKey(addDays(end, -(WindowDays - i)))]

\* perDay[k] after the loop over the tasks.
perDayCount(ts, k) ==
    Cardinality({i \in DOMAIN ts : ts[i].done /\ ts[i].doneDay = Val(k)})

RECURSIVE RunningSum(_, _, _)
RunningSum(ts, keys, i) ==
    IF i = 0 THEN 0 ELSE RunningSum(ts, keys, i - 1) + perDayCount(ts, keys[i])

\* Mutant of last14: the values are the per-day counts, not their running sum.
last14PerDay(ts, nowMs) ==
    LET keys == last14Keys(nowMs)
    IN  [i \in 1..WindowDays |-> perDayCount(ts, keys[i])]

\* last14.values
last14(ts, nowMs) ==
    LET keys == last14Keys(nowMs)
    IN  [i \in 1..WindowDays |-> RunningSum(ts, keys, i)]

\* A render: the memoised statistics of the tasks of the selected category.
Stats(ts, cat, nowMs) ==
    [streak |-> streak(todosInCat(ts, cat), nowMs),
     values |-> last14(todosInCat(ts, cat), nowMs)]

statsIdle ==
    UNCHANGED <<phase, user, todos, loaded, syncing, cache, remote, fetches, writes,
                deletes, now, nextId, scope, planVars, listVars, calc>>

\* The first render after the collection is in place.
RenderStats ==
    /\ view = NoView
    /\ view' = Stats(todos, category, now)
    /\ UNCHANGED category
    /\ statsIdle

\* A category tab is clicked: todosInCat changes and the statistics follow.
setCategoryStats(c) ==
    /\ view # NoView
    /\ c # category
    /\ category' = c
    /\ view' = Stats(todos, c, now)
    /\ statsIdle

StatCategories == {"daily", "work"}

\* The doneDay a stored task may carry: none, one of the last days, the
\* oldest day of the window, or the day just before the window.
DoneDayInputs(nowMs) ==
    {Undefined}
      \cup {Val(dayKey(addDays(nowMs, -k))) : k \in (0..MaxBack) \cup {WindowDays - 1, WindowDays}}

StatTodo(cat, done, dd) ==
    [id |-> SeedId, text |-> <<"s">>, done |-> done, createdAt |-> -1,
     category |-> cat, doneAt |-> IF done THEN Val(-1) ELSE Undefined,
     doneDay |-> dd, dueDay |-> Undefined, workoutPart |-> Undefined]

StatTodos(nowMs) ==
    {StatTodo(cat, done, dd) :
        cat \in StatCategories, done \in BOOLEAN, dd \in DoneDayInputs(nowMs)}

\* Collections of up to MaxStatTasks tasks, ids by position.
StatCollections(nowMs) ==
    UNION {{[i \in 1..n |-> [f[i] EXCEPT !.id = i, !.createdAt = -i]] :
                f \in [1..n -> StatTodos(nowMs)]} : n \in 0..MaxStatTasks}

\* The render happens at noon on the base day or on the next day, the
\* first of the following month.
StatClocks == {MsPerDay \div 2, MsPerDay + MsPerDay \div 2}

StatsInit ==
    /\ scope = [accounts |-> {"alice"}, fetches |-> MaxFetches, writes |-> MaxWrites,
               day0 |-> BaseDay, tz |-> 0]
    /\ phase = "mounted"
    /\ user = NoUser
    /\ category = "daily"
    /\ now \in StatClocks
    /\ todos \in StatCollections(now)
    /\ loaded = TRUE
    /\ syncing = FALSE
    /\ cache = PersistEffect(TRUE, todos, NoItem)
    /\ remote = [u \in Users |-> <<>>]
    /\ fetches = EmptyBag
    /\ writes = EmptyBag
    /\ deletes = EmptyBag
    /\ nextId = MaxStatTasks + 1
    /\ PlanInit
    /\ view = NoView
    /\ filter = "all"
    /\ lists = NoLists
    /\ calc = NoCall

StatsNext ==
    \/ RenderStats
    \/ \E c \in StatCategories : setCategoryStats(c)

SpecStats == StatsInit /\ [][StatsNext]_vars

(***************************************************************************)
(* Derived lists: the filtered task list and the weekly aggregate.         *)
(***************************************************************************)
Filters == {"all", "today", "tomorrow", "week", "active", "done"}

\* a < b on "YYYY-MM-DD" strings: the zero-padded fields compare in order.
KeyLess(a, b) ==
    \/ a[1] < b[1]
    \/ a[1] = b[1] /\ a[2] < b[2]
    \/ a[1] = b[1] /\ a[2] = b[2] /\ a[3] < b[3]

\* Mutant of EffectiveDue: an absent dueDay names no day.
EffectiveDueNoDefault(t, today) ==
    IF IsVal(t.dueDay) THEN ValOf(t.dueDay) ELSE <<0, 0, 0>>

\* t.dueDay ?? today
EffectiveDue(t, today) == ValOf(Coalesce(t.dueDay, Val(today)))

\* The comparator of visibleTodos returns a positive number: b sorts first.
SortsAfter(a, b, today) ==
    LET ad == EffectiveDue(a, today)
        bd == EffectiveDue(b, today)
    IN  IF KeyLess(ad, bd) THEN FALSE
        ELSE IF KeyLess(bd, ad) THEN TRUE
        ELSE IF a.done # b.done THEN a.done
        ELSE b.createdAt - a.createdAt > 0

\* One step of a stable sort: t goes before the first element that sorts
\* after it.
RECURSIVE InsertVisible(_, _, _)
InsertVisible(sorted, t, today) ==
    IF sorted = <<>> THEN <<t>>
    ELSE IF SortsAfter(Head(sorted), t, today) THEN <<t>> \o sorted
    ELSE <<Head(sorted)>> \o InsertVisible(Tail(sorted), t, today)

RECURSIVE SortVisible(_, _)
SortVisible(ts, today) ==
    IF ts = <<>> THEN <<>>
    ELSE InsertVisible(SortVisible(SubSeq(ts, 1, Len(ts) - 1), today), ts[Len(ts)], today)

InWeek(k, nowMs) == \E i \in 1..7 : weekKeysMonSun(nowMs)[i] = k

\* The filter steps of visibleTodos.
Keeps(t, flt, nowMs) ==
    LET today    == dayKey(nowMs)
        tomorrow == dayKey(addDays(nowMs, 1))
    IN  /\ flt = "active" => ~t.done
        /\ flt = "done" => t.done
        /\ flt = "today" => EffectiveDue(t, today) = today
        /\ flt = "tomorrow" => EffectiveDue(t, today) = tomorrow
        /\ flt = "week" => InWeek(EffectiveDue(t, today), nowMs)

visibleTodos(ts, flt, nowMs) ==
    SortVisible(SelectSeq(ts, LAMBDA t : Keeps(t, flt, nowMs)), dayKey(nowMs))

\* weekStats.arr: per day key of the week, the planned and the done count.
weekStats(ts, nowMs) ==
    LET keys == weekKeysMonSun(nowMs)
    IN  [i \in 1..7 |->
            [key     |-> keys[i],
             planned |-> Cardinality({j \in DOMAIN ts :
                             IsVal(ts[j].dueDay) /\ ValOf(ts[j].dueDay) = keys[i]}),
             done    |-> Cardinality({j \in DOMAIN ts :
                             ts[j].done /\ IsVal(ts[j].doneDay)
                               /\ ValOf(ts[j].doneDay) = keys[i]})]]

\* The comparator of weekTasksByDay returns a positive number: b sorts first.
DaySortsAfter(a, b) ==
    IF a.done # b.done THEN a.done
    ELSE b.createdAt - a.createdAt > 0

\* One step of a stable sort: t goes before the first element that sorts
\* after it.
RECURSIVE InsertDay(_, _)
InsertDay(sorted, t) ==
    IF sorted = <<>> THEN <<t>>
    ELSE IF DaySortsAfter(Head(sorted), t) THEN <<t>> \o sorted
    ELSE <<Head(sorted)>> \o InsertDay(Tail(sorted), t)

\* Mutant of SortDay: the tasks of a day stay in the order of the collection.
SortDayKeepsOrder(ts) == ts

RECURSIVE SortDay(_)
SortDay(ts) ==
    IF ts = <<>> THEN <<>>
    ELSE InsertDay(SortDay(SubSeq(ts, 1, Len(ts) - 1)), ts[Len(ts)])

\* weekTasksByDay: per day key of the week, in week order, the tasks whose
\* dueDay ?? today is that key, sorted.
weekTasksByDay(ts, nowMs) ==
    LET keys  == weekKeysMonSun(nowMs)
        today == dayKey(nowMs)
    IN  [i \in 1..7 |->
            SortDay(SelectSeq(ts, LAMBDA t : EffectiveDue(t, today) = keys[i]))]

partLabel ==
    [chest |-> "Chest", back |-> "Back", legs |-> "Legs", arms |-> "Arms",
     shoulders |-> "Shoulders", core |-> "Core", cardio |-> "Cardio"]

\* weekStats.arr: per day key of the week, its short weekday label and the
\* label of the plan row of toWeekdayKeyFromDate(new Date(key)), when the
\* category is workout and the row is enabled.
weekStatsLabels(p, cat, nowMs) ==
    LET keys == weekKeysMonSun(nowMs)
    IN  [i \in 1..7 |->
            LET planRow == p[toWeekdayKeyFromDate(DateFromKey(keys[i]))]
            IN  [key      |-> keys[i],
                 wd       |-> labelWeekdayEN(keys[i]),
                 planText |-> IF cat = "workout" /\ planRow.enabled
                              THEN Val(partLabel[planRow.part]) ELSE Null]]

\* addTodoInline in workout: the part of the plan row of
\* toWeekdayKeyFromDate(new Date(day)) when enabled, else the form's part.
InlinePart(day, p, formPart) ==
    LET planned == p[toWeekdayKeyFromDate(DateFromKey(day))]
    IN  IF planned.enabled THEN planned.part ELSE formPart

\* A render: the memoised lists of the tasks of the selected category.
Lists(ts, cat, flt, nowMs) ==
    [visible |-> visibleTodos(todosInCat(ts, cat), flt, nowMs),
     week    |-> weekStats(todosInCat(ts, cat), nowMs),
     byDay   |-> weekTasksByDay(todosInCat(ts, cat), nowMs),
     labels  |-> weekStatsLabels(plan, cat, nowMs)]

listsIdle ==
    UNCHANGED <<phase, user, todos, loaded, syncing, cache, remote, fetches, writes,
                deletes, now, nextId, scope, planVars, view, calc>>

\* The first render after the collection is in place.
RenderLists ==
    /\ lists = NoLists
    /\ lists' = Lists(todos, category, filter, now)
    /\ UNCHANGED <<category, filter>>
    /\ listsIdle

\* A filter chip is clicked.
setFilter(f) ==
    /\ lists # NoLists
    /\ f # filter
    /\ filter' = f
    /\ lists' = Lists(todos, category, f, now)
    /\ UNCHANGED category
    /\ listsIdle

\* A category tab is clicked.
setCategoryLists(c) ==
    /\ lists # NoLists
    /\ c # category
    /\ category' = c
    /\ lists' = Lists(todos, c, filter, now)
    /\ UNCHANGED filter
    /\ listsIdle

\* The dueDay a stored task may carry: none, today, tomorrow, the Monday of
\* this week, the Monday of the next.
DueDayInputs(nowMs) ==
    {Undefined, Val(dayKey(nowMs)), Val(dayKey(addDays(nowMs, 1))),
     Val(weekKeysMonSun(nowMs)[1]), Val(dayKey(addDays(startOfWeekMonday(nowMs), 7)))}

ListDoneInputs(nowMs) ==
    {[done |-> FALSE, doneAt |-> Undefined, doneDay |-> Undefined],
     [done |-> TRUE, doneAt |-> Val(nowMs), doneDay |-> Val(dayKey(nowMs))],
     [done |-> TRUE, doneAt |-> Val(addDays(nowMs, -7)),
      doneDay |-> Val(dayKey(addDays(nowMs, -7)))]}

ListTodos(nowMs) ==
    {[id |-> SeedId, text |-> <<"s">>, done |-> dn.done, createdAt |-> -1,
      category |-> cat, doneAt |-> dn.doneAt, doneDay |-> dn.doneDay,
      dueDay |-> due, workoutPart |-> Undefined] :
        cat \in StatCategories, dn \in ListDoneInputs(nowMs), due \in DueDayInputs(nowMs)}

\* Collections of up to MaxListTasks tasks, newest first, ids by position.
ListCollections(nowMs) ==
    UNION {{[i \in 1..n |-> [f[i] EXCEPT !.id = i, !.createdAt = -i]] :
                f \in [1..n -> ListTodos(nowMs)]} : n \in 0..MaxListTasks}

\* The render happens at noon on the base day, a Thursday, or on the Sunday
\* of its week.
ListClocks == {MsPerDay \div 2, 3 * MsPerDay + MsPerDay \div 2}

ListsInit ==
    /\ scope = [accounts |-> {"alice"}, fetches |-> MaxFetches, writes |-> MaxWrites,
               day0 |-> BaseDay, tz |-> 0]
    /\ phase = "mounted"
    /\ user = NoUser
    /\ category = "daily"
    /\ now \in ListClocks
    /\ todos \in ListCollections(now)
    /\ loaded = TRUE
    /\ syncing = FALSE
    /\ cache = PersistEffect(TRUE, todos, NoItem)
    /\ remote = [u \in Users |-> <<>>]
    /\ fetches = EmptyBag
    /\ writes = EmptyBag
    /\ deletes = EmptyBag
    /\ nextId = MaxListTasks + 1
    /\ PlanInit
    /\ view = NoView
    /\ filter = "all"
    /\ lists = NoLists
    /\ calc = NoCall

ListsNext ==
    \/ RenderLists
    \/ \E f \in Filters : setFilter(f)
    \/ \E c \in StatCategories : setCategoryLists(c)

SpecLists == ListsInit /\ [][ListsNext]_vars

(***************************************************************************)
(* The weekly calendar of the workout category: plan labels and the body   *)
(* part of an inline add, on devices in several time zones.                *)
(***************************************************************************)
\* The device's offset from UTC, in hours.
TzOffsets == {-8, -5, 0, 1, 9}

\* Every day enabled with its default part, or Monday alone.
LabelPlans ==
    {[k \in WeekdayKeys |-> [enabled |-> TRUE, part |-> defaultPlan[k].part]],
     [defaultPlan EXCEPT !.mon = [enabled |-> TRUE, part |-> "legs"]]}

\* The user is signed in, the collection is empty and the plan has been
\* loaded from the settings (its save has completed).
LabelsInit ==
    /\ scope \in {[accounts |-> {"alice"}, fetches |-> MaxFetches, writes |-> MaxWrites,
                   day0 |-> BaseDay, tz |-> z] : z \in TzOffsets}
    /\ phase = "mounted"
    /\ user = "alice"
    /\ category = "workout"
    /\ now \in ListClocks
    /\ todos = <<>>
    /\ loaded = TRUE
    /\ syncing = FALSE
    /\ cache = PersistEffect(TRUE, todos, NoItem)
    /\ remote = [u \in Users |-> <<>>]
    /\ fetches = EmptyBag
    /\ writes = EmptyBag
    /\ deletes = EmptyBag
    /\ nextId = 1
    /\ plan \in LabelPlans
    /\ planLoaded = TRUE
    /\ savePlanTimer = 1
    /\ timers = {}
    /\ nextTimer = 2
    /\ settings = [u \in Users |-> IF u = "alice" THEN <<plan>> ELSE <<>>]
    /\ planFetches = EmptyBag
    /\ planWrites = EmptyBag
    /\ lastEditAt = <<>>
    /\ ownPlans = [u \in Users |-> IF u = "alice" THEN {plan} ELSE {}]
    /\ view = NoView
    /\ filter = "all"
    /\ lists = NoLists
    /\ calc = NoCall

\* The day columns of the weekly calendar.
WeekDayInputs == {weekKeysMonSun(now)[i] : i \in 1..7}

LabelsNext ==
    \/ RenderLists
    \/ \E c \in Categories : setCategoryLists(c)
    \/ \E text \in TextInputs, day \in WeekDayInputs, part \in PartInputs :
          addTodoInline(text, day, InlinePart(day, plan, part))
    \/ \E w \in BagToSet(writes) : WriteOk(w)
    \/ \E w \in BagToSet(writes) : WriteFail(w)

SpecPlanLabels == LabelsInit /\ [][LabelsNext]_vars

(***************************************************************************)
(* The helper functions, each applied to inputs of its domain.             *)
(***************************************************************************)
\* Math.floor(Math.log10(n)) for n >= 1.
RECURSIVE FloorLog10(_)
FloorLog10(n) == IF n < 10 THEN 0 ELSE 1 + FloorLog10(n \div 10)

\* Math.pow(10, e)
RECURSIVE Pow10(_)
Pow10(e) == IF e = 0 THEN 1 ELSE 10 * Pow10(e - 1)

\* Mutant of niceCeil: the mantissa tests are strict.
niceCeilStrict(n) ==
    IF n <= 10 THEN 10
    ELSE IF n <= 20 THEN 20
    ELSE IF n <= 50 THEN 50
    ELSE IF n <= 100 THEN 100
    ELSE LET p == Pow10(FloorLog10(n))
         IN  IF n < 2 * p THEN 2 * p
             ELSE IF n < 5 * p THEN 5 * p
             ELSE 10 * p

\* m = n / p; m <= 2 is n <= 2 * p, m <= 5 is n <= 5 * p.
niceCeil(n) ==
    IF n <= 10 THEN 10
    ELSE IF n <= 20 THEN 20
    ELSE IF n <= 50 THEN 50
    ELSE IF n <= 100 THEN 100
    ELSE LET p == Pow10(FloorLog10(n))
         IN  IF n <= 2 * p THEN 2 * p
             ELSE IF n <= 5 * p THEN 5 * p
             ELSE 10 * p

helpersIdle ==
    UNCHANGED <<phase, user, category, todos, loaded, syncing, cache, remote, fetches,
                writes, deletes, now, nextId, scope, planVars, view, listVars>>

\* yMax = niceCeil(Math.max(1, dataMax))
callNiceCeil(n) ==
    /\ calc = NoCall
    /\ calc' = [fn |-> "niceCeil", arg |-> n, out |-> niceCeil(n)]
    /\ helpersIdle

callWeekKeysMonSun(d) ==
    /\ calc = NoCall
    /\ calc' = [fn |-> "weekKeysMonSun", arg |-> d, out |-> weekKeysMonSun(d)]
    /\ helpersIdle

\* dayKey(addDays(d, 1)), and dayKey of addDays(addDays(d, n), -n).
callAddDays(d, n) ==
    /\ calc = NoCall
    /\ calc' = [fn |-> "addDays", arg |-> [d |-> d, n |-> n],
                out |-> [next |-> dayKey(addDays(d, 1)),
                         back |-> dayKey(addDays(addDays(d, n), -n))]]
    /\ helpersIdle

\* A task is written with setDoc(ref, toFirestoreTodo(t)), stored by the
\* server and read back with fromFirestoreTodo(d.id, d.data()).
callRoundTrip(t) ==
    /\ calc = NoCall
    /\ calc' = [fn |-> "roundTrip", arg |-> t,
                out |-> fromFirestoreTodo(t.id, Resolve(toFirestoreTodo(t)), now)]
    /\ helpersIdle

callReturns ==
    /\ calc # NoCall
    /\ calc' = NoCall
    /\ helpersIdle

NiceInputs == 1..MaxNice

\* Dates of the days following the origin day, at the start, the middle and
\* the last millisecond of the day.
DateInputs ==
    {k * MsPerDay + tod : k \in 0..(OriginStep - 1),
                          tod \in {0, MsPerDay \div 2, MsPerDay - 1}}

ShiftInputs == (-MaxShift)..MaxShift

\* Task records of the Todo type: every optional field absent or present,
\* falsy values included.
RoundTripTodos ==
    {[id |-> 1, text |-> tx, done |-> dn, createdAt |-> cr, category |-> cat,
      doneAt |-> da, doneDay |-> dd, dueDay |-> du, workoutPart |-> wp] :
        tx \in {<<>>, <<"a">>}, dn \in BOOLEAN, cr \in {0, 7}, cat \in Categories,
        da \in {Undefined, Val(0), Val(7)}, dd \in {Undefined, Val(dayKey(0))},
        du \in {Undefined, Val(dayKey(MsPerDay))}, wp \in {Undefined, Val("legs")}}

\* The origin days: every OriginStep days around the base day, a year back
\* and a year ahead.
OriginDays == {BaseDay + OriginStep * j : j \in (-OriginSpan)..OriginSpan}

HelpersInit ==
    /\ scope \in {[accounts |-> {"alice"}, fetches |-> MaxFetches, writes |-> MaxWrites,
                   day0 |-> o, tz |-> 0] : o \in OriginDays}
    /\ phase = "mounted"
    /\ user = NoUser
    /\ category = "daily"
    /\ now = 0
    /\ todos = <<>>
    /\ loaded = TRUE
    /\ syncing = FALSE
    /\ cache = PersistEffect(TRUE, todos, NoItem)
    /\ remote = [u \in Users |-> <<>>]
    /\ fetches = EmptyBag
    /\ writes = EmptyBag
    /\ deletes = EmptyBag
    /\ nextId = 1
    /\ PlanInit
    /\ view = NoView
    /\ filter = "all"
    /\ lists = NoLists
    /\ calc = NoCall

HelpersNext ==
    \/ \E n \in NiceInputs : callNiceCeil(n)
    \/ \E d \in DateInputs : callWeekKeysMonSun(d)
    \/ \E d \in DateInputs, n \in ShiftInputs : callAddDays(d, n)
    \/ \E t \in RoundTripTodos : callRoundTrip(t)
    \/ callReturns

SpecHelpers == HelpersInit /\ [][HelpersNext]_vars

(***************************************************************************)
(* Claims about the task store, checked under Spec.                        *)
(***************************************************************************)
NoCallInFlight == fetches = EmptyBag /\ writes = EmptyBag /\ deletes = EmptyBag

\* C1: toggleTodo(id) on a task of the collection that is not done makes it
\* done with doneAt the current time and doneDay today's local day key;
\* on a task that is done it makes it not done with doneAt and doneDay absent.
C1_ToggleSetsAndClears ==
    [][\A id \in AllIds :
          (id \in Ids(todos) /\ toggleTodo(id)) =>
              /\ id \in Ids(todos')
              /\ LET before == Find(todos, id)
                     after  == Find(todos', id)
                 IN  IF before.done
                     THEN /\ after.done = FALSE
                          /\ after.doneAt = Undefined
                          /\ after.doneDay = Undefined
                     ELSE /\ after.done = TRUE
                          /\ after.doneAt = Val(now)
                          /\ after.doneDay = Val(dayKey(now))]_vars

\* A task was toggled to done on the day after BaseDay, and another toggle
\* back to not done has its patch in flight.
C1_Witness ==
    /\ now > 0
    /\ \E i \in 1..Len(todos) :
          /\ todos[i].done
          /\ todos[i].doneAt = Val(now)
          /\ todos[i].doneDay = Val(CivilFromDays(BaseDay + 1))
    /\ \E w \in BagToSet(writes) : w.kind = "updateDoc" /\ w.data.done = Val(FALSE)

\* C2: in every reachable state every task of the collection has doneAt
\* present exactly when it is done, and doneDay present exactly when it is done.
C2_DoneFieldsIffDone ==
    \A i \in 1..Len(todos) :
        /\ IsVal(todos[i].doneAt) <=> todos[i].done
        /\ IsVal(todos[i].doneDay) <=> todos[i].done

\* The collection was fetched from documents one of which a toggle patched.
C2_Witness ==
    /\ user # NoUser /\ ~syncing /\ NoCallInFlight
    /\ todos = FreshTodos(remote[user], now)
    /\ \E i \in 1..Len(todos) : todos[i].done /\ todos[i].id # SeedId

\* C3: when the fetch started at sign-in completes, the collection is exactly
\* the fetched documents, ordered by createdAt descending; a task that was in
\* the collection and is not among the fetched documents is gone.
C3_FetchReplaces ==
    [][\A f \in BagToSet(fetches) :
          FetchDone(f) =>
              /\ Len(todos') = Len(f.docs)
              /\ \A i \in 1..Len(f.docs) :
                    \E j \in 1..Len(todos') :
                        todos'[j] = fromFirestoreTodo(f.docs[i].id, f.docs[i].data, now)
              /\ \A i, j \in 1..Len(todos') :
                    i < j => todos'[i].createdAt >= todos'[j].createdAt
              /\ \A id \in Ids(todos) :
                    (\A i \in 1..Len(f.docs) : f.docs[i].id # id) => id \notin Ids(todos')]_vars

\* A fetch result of two documents, the newer one listed last, is about to
\* replace a collection that differs from it.
C3_Witness ==
    \E f \in BagToSet(fetches) :
        /\ f.read /\ loaded
        /\ Len(f.docs) = 2
        /\ ValOf(f.docs[1].data.createdAt) < ValOf(f.docs[2].data.createdAt)
        /\ todos # FreshTodos(f.docs, now)

\* C4 as stated: while no user is signed in, add with a non-empty text puts
\* the new task into the collection and into the local cache, and attempts no
\* remote call.
C4_SignedOutAddStoresTask ==
    (phase = "mounted" /\ user = NoUser) =>
        ENABLED (\E text \in TextInputs, due \in DueInputs, part \in PartInputs :
                    /\ Trim(text) # <<>>
                    /\ addTodo(text, due, part)
                    /\ Len(todos') = Len(todos) + 1
                    /\ todos'[1].text = Trim(text)
                    /\ cache' = Item(JsonStringify(todos'))
                    /\ writes' = writes)

\* C4, amended: while no user is signed in, add (from the form or inline) with
\* a non-empty text changes neither the collection nor the local cache, and
\* attempts no remote call.
C4_SignedOutAddIsNoOp ==
    (phase = "mounted" /\ user = NoUser) =>
        ~ENABLED (\E text \in TextInputs, due \in DueInputs \cup InlineDayInputs,
                     part \in PartInputs :
                    /\ Trim(text) # <<>>
                    /\ addTodo(text, due, part) \/ addTodoInline(text, due, part)
                    /\ todos' # todos \/ cache' # cache \/ writes' # writes)

\* No user is signed in, the collection is loaded and holds a task, and the
\* add handler can run with a non-empty text.
C4_Witness ==
    /\ phase = "mounted" /\ user = NoUser /\ loaded /\ todos # <<>>
    /\ ENABLED (\E text \in TextInputs, due \in DueInputs, part \in PartInputs :
                    Trim(text) # <<>> /\ addTodo(text, due, part))

\* C5: once the local cache has been loaded, the local cache holds the
\* serialized in-memory collection after every change of the collection.
C5_CacheMirrorsCollection == loaded => cache = Item(JsonStringify(todos))

\* The loaded collection holds a done and a not-done task, so the cached
\* objects differ in the properties they carry.
C5_Witness ==
    /\ loaded
    /\ \E i, j \in 1..Len(todos) : todos[i].done /\ ~todos[j].done
    /\ cache # Item(todos)

\* C6: when a remote write, patch or delete fails, the collection and the
\* local cache stay as the optimistic apply left them, the call is not issued
\* again, and the store enters no error state.
C6_FailureIsSwallowed ==
    [][((\E w \in BagToSet(writes) : WriteFail(w) /\ writes' = writes (-) One(w))
          \/ (\E d \in BagToSet(deletes) : DeleteFail(d) /\ deletes' = deletes (-) One(d)))
         => /\ todos' = todos
            /\ cache' = cache
            /\ BagCardinality(writes') + BagCardinality(deletes')
                  = BagCardinality(writes) + BagCardinality(deletes) - 1
            /\ fetches' = fetches
            /\ phase' = phase /\ loaded' = loaded /\ syncing' = syncing]_vars

\* A task added in this session is in the collection and the cache, has no
\* remote document, and no call is in flight.
C6_Witness ==
    /\ user # NoUser /\ NoCallInFlight
    /\ \E i \in 1..Len(todos) :
          /\ todos[i].id # SeedId
          /\ ~HasDoc(remote[user], todos[i].id)
    /\ cache = Item(JsonStringify(todos))

\* C8: the store goes Unloaded, LocalCacheLoaded, RemoteSyncing, RemoteSynced
\* in that order: while unloaded no user is known, nothing is syncing and no
\* fetch is in flight; a fetch result is applied only to a loaded store;
\* syncing starts only with a user signed in; loaded never becomes false again.
C8_LoadThenSync ==
    [][/\ ~loaded => (user = NoUser /\ ~syncing /\ fetches = EmptyBag)
       /\ (\A f \in BagToSet(fetches) : FetchDone(f) => loaded)
       /\ (~syncing /\ syncing') => (user' # NoUser /\ loaded)
       /\ loaded => loaded']_vars

\* The store is loaded and syncing for the signed-in user, and the fetch
\* result that makes it synced is about to be applied.
C8_Witness ==
    /\ loaded /\ syncing /\ user # NoUser
    /\ \E f \in BagToSet(fetches) : f.read /\ f.uid = user /\ f.docs # <<>>


(***************************************************************************)
(* Claims about the debounced plan save, checked under SpecPlan.           *)
(***************************************************************************)
PlanEdited ==
    \/ \E day \in EditDays : togglePlanDay(day)
    \/ \E day \in EditDays, part \in PlanPartInputs : setPlanPart(day, part)

PlanSaveFired == \E t \in timers : SavePlanTimerFires(t)

\* The write a firing timer adds to the calls in flight.
FiredWrites == {w \in BagToSet(planWrites') : CopiesIn(w, planWrites') > CopiesIn(w, planWrites)}

\* C7: an edit made while a user is signed in and the plan is loaded leaves
\* exactly the timer it sets, due 450 ms later; at most one timer is pending
\* at any time; a write is issued only 450 ms or more after the last edit and
\* carries the plan as that edit left it.
C7_DebouncedSave ==
    [][ /\ Cardinality(timers) <= 1 /\ Cardinality(timers') <= 1
        /\ (PlanEdited /\ planLoaded) =>
              timers' = {[handle |-> savePlanTimer', at |-> now, uid |-> user, plan |-> plan']}
        /\ (PlanSaveFired /\ lastEditAt # <<>> /\ lastEditAt[1].loaded) =>
              /\ now >= lastEditAt[1].at + SaveDelay
              /\ \A w \in FiredWrites : w.plan = lastEditAt[1].plan
      ]_vars

(***************************************************************************)
(* Claims about the derived statistics, checked under SpecStats.           *)
(***************************************************************************)
\* The collection the statistics were computed from.
Shown == todosInCat(todos, category)

\* Some task of the shown collection is done with doneDay `back` days ago.
HasDoneOn(back) ==
    \E i \in DOMAIN Shown :
        Shown[i].done /\ Shown[i].doneDay = Val(dayKey(addDays(now, -back)))

\* C9: the streak is the largest n such that each of the days today,
\* today-1, ..., today-(n-1) has a done task with that doneDay; done tasks on
\* today, today-1 and today-2 and none on today-3 give 3; no done task today
\* gives 0 whatever yesterday holds.
C9_StreakIsLongestRun ==
    view # NoView =>
        /\ \A back \in 0..(view.streak - 1) : HasDoneOn(back)
        /\ ~HasDoneOn(view.streak)
        /\ (HasDoneOn(0) /\ HasDoneOn(1) /\ HasDoneOn(2) /\ ~HasDoneOn(3)) => view.streak = 3
        /\ ~HasDoneOn(0) => view.streak = 0

\* The statistics are computed for done tasks on today, today-1 and today-2
\* and none on today-3.
C9_Witness ==
    /\ view # NoView
    /\ HasDoneOn(0) /\ HasDoneOn(1) /\ HasDoneOn(2) /\ ~HasDoneOn(3)
    /\ view.streak = 3

\* The done tasks of the shown collection whose doneDay is one of the 14
\* calendar days ending today.
DoneInWindow ==
    {i \in DOMAIN Shown :
        /\ Shown[i].done
        /\ \E back \in 0..(WindowDays - 1) :
              Shown[i].doneDay = Val(dayKey(addDays(now, -back)))}

\* C10: the series has 14 values, never decreasing, and its last value is
\* the number of done tasks whose doneDay lies in the 14 days ending today.
C10_SeriesIsCumulative ==
    view # NoView =>
        /\ Len(view.values) = WindowDays
        /\ \A i \in 1..(WindowDays - 1) : view.values[i] <= view.values[i + 1]
        /\ view.values[WindowDays] = Cardinality(DoneInWindow)

\* The series is computed for a collection with a done task on the oldest
\* day of the window, one on a later day, and one just before the window.
C10_Witness ==
    /\ view # NoView
    /\ HasDoneOn(WindowDays - 1) /\ HasDoneOn(1) /\ HasDoneOn(WindowDays)
    /\ view.values[1] = 1
    /\ view.values[WindowDays] = 2

(***************************************************************************)
(* Claims about the derived lists, checked under SpecLists.                *)
(***************************************************************************)
\* The tasks of the selected category whose dueDay, or today when it has
\* none, is the day key k.
DueOn(k) ==
    {i \in DOMAIN Shown :
        IF Shown[i].dueDay = Undefined THEN k = dayKey(now)
        ELSE Shown[i].dueDay = Val(k)}

\* C11: under the filter "today" the visible list holds exactly the tasks of
\* the category whose dueDay, or today when absent, is today: a task with no
\* dueDay is listed and a task due tomorrow is not.
C11_TodayFilter ==
    (lists # NoLists /\ filter = "today") =>
        /\ Len(lists.visible) = Cardinality(DueOn(dayKey(now)))
        /\ {lists.visible[i].id : i \in DOMAIN lists.visible}
              = {Shown[i].id : i \in DueOn(dayKey(now))}
        /\ \A i \in DOMAIN lists.visible : lists.visible[i] \in {Shown[j] : j \in DOMAIN Shown}
        /\ \A i \in DOMAIN Shown :
              /\ Shown[i].dueDay = Undefined
                    => \E j \in DOMAIN lists.visible : lists.visible[j] = Shown[i]
              /\ Shown[i].dueDay = Val(dayKey(addDays(now, 1)))
                    => \A j \in DOMAIN lists.visible : lists.visible[j] # Shown[i]

\* The list is rendered under "today" for a task with no dueDay and a task
\* due tomorrow, and holds one task.
C11_Witness ==
    /\ lists # NoLists /\ filter = "today"
    /\ \E i, j \in DOMAIN Shown :
          /\ Shown[i].dueDay = Undefined
          /\ Shown[j].dueDay = Val(dayKey(addDays(now, 1)))
    /\ Len(lists.visible) = 1

\* C12: in the weekly aggregate the planned count of each day key of the
\* week is the number of tasks of the category whose dueDay, or today when
\* absent, is that key, and the done count is the number of done tasks with
\* that doneDay.
C12_WeekCounts ==
    lists # NoLists =>
        /\ Len(lists.week) = 7
        /\ \A i \in 1..7 :
              /\ lists.week[i].key = weekKeysMonSun(now)[i]
              /\ lists.week[i].planned = Cardinality(DueOn(lists.week[i].key))
              /\ lists.week[i].done =
                    Cardinality({j \in DOMAIN Shown :
                        Shown[j].done /\ Shown[j].doneDay = Val(lists.week[i].key)})

(***************************************************************************)
(* Claims about the helper functions, checked under SpecHelpers.           *)
(***************************************************************************)
\* C13: a task written with toFirestoreTodo and read back with
\* fromFirestoreTodo under its id is the task itself, whichever of doneAt,
\* doneDay, dueDay and workoutPart it carries; updatedAt is not read back.
C13_RoundTrip ==
    calc.fn = "roundTrip" => calc.out = calc.arg

\* A task with doneAt = 0 and no dueDay went through the round trip.
C13_Witness ==
    /\ calc.fn = "roundTrip"
    /\ calc.arg.doneAt = Val(0) /\ calc.arg.dueDay = Undefined
    /\ calc.arg.workoutPart # Undefined
    /\ calc.out = calc.arg

\* The largest power of ten that is at most n, for 1 <= n < 100000.
PowerOfTenBelow(n) == CHOOSE p \in {1, 10, 100, 1000, 10000} : p <= n /\ n < 10 * p

\* The smallest of 2p, 5p and 10p that is at least n.
SmallestNiceMultiple(n) ==
    LET p == PowerOfTenBelow(n)
    IN  CHOOSE c \in {2 * p, 5 * p, 10 * p} :
            c >= n /\ \A e \in {2 * p, 5 * p, 10 * p} : e >= n => c <= e

NiceExamples ==
    {<<7, 10>>, <<15, 20>>, <<37, 50>>, <<83, 100>>, <<150, 200>>, <<430, 500>>,
     <<1200, 2000>>}

\* C15: niceCeil(n) is 10, 20, 50, 100 for n up to 10, 20, 50, 100, and above
\* 100 the smallest of 2p, 5p, 10p that is at least n, p the largest power of
\* ten at most n; the examples of the claim hold and the result is never
\* below n.
C15_NiceCeil ==
    calc.fn = "niceCeil" =>
        LET n == calc.arg
            r == calc.out
        IN  /\ n <= 10 => r = 10
            /\ (10 < n /\ n <= 20) => r = 20
            /\ (20 < n /\ n <= 50) => r = 50
            /\ (50 < n /\ n <= 100) => r = 100
            /\ n > 100 => r = SmallestNiceMultiple(n)
            /\ r >= n
            /\ \A e \in NiceExamples : n = e[1] => r = e[2]

\* niceCeil was applied to 500, a value that is itself 5p.
C15_Witness ==
    calc.fn = "niceCeil" /\ calc.arg = 500 /\ calc.out = 500

\* The calendar: the day after <<y, m, d>>.
IsLeapYear(y) == (y % 4 = 0 /\ y % 100 # 0) \/ y % 400 = 0

DaysInMonth(y, m) ==
    IF m = 2 THEN (IF IsLeapYear(y) THEN 29 ELSE 28)
    ELSE IF m \in {4, 6, 9, 11} THEN 30
    ELSE 31

NextCivil(k) ==
    IF k[3] < DaysInMonth(k[1], k[2]) THEN <<k[1], k[2], k[3] + 1>>
    ELSE IF k[2] < 12 THEN <<k[1], k[2] + 1, 1>>
    ELSE <<k[1] + 1, 1, 1>>

\* 1970-01-01 was a Thursday.
IsMonday(k) == DaysFromCivil(k) % 7 = 4

\* C16: weekKeysMonSun returns 7 day keys of consecutive calendar days, the
\* first a Monday at most 6 days before the input date, and the input date's
\* own day key is one of them.
C16_WeekKeys ==
    calc.fn = "weekKeysMonSun" =>
        LET keys == calc.out
            own  == dayKey(calc.arg)
        IN  /\ Len(keys) = 7
            /\ \A i \in 1..6 : keys[i + 1] = NextCivil(keys[i])
            /\ IsMonday(keys[1])
            /\ DaysFromCivil(own) - DaysFromCivil(keys[1]) \in 0..6
            /\ \E i \in 1..7 : keys[i] = own

\* weekKeysMonSun was applied to the last millisecond of a Sunday, and the
\* week it returned starts in the month before.
C16_Witness ==
    /\ calc.fn = "weekKeysMonSun"
    /\ getDay(calc.arg) = 0 /\ calc.arg % MsPerDay = MsPerDay - 1
    /\ calc.out[7] = dayKey(calc.arg)
    /\ calc.out[1][2] # calc.out[7][2]

\* C17: dayKey(addDays(d, 1)) is the day key of the calendar day after that
\* of d, across month ends, leap days and year ends (2024-02-29 gives
\* 2024-03-01), and addDays(d, n) followed by addDays(., -n) gives the day
\* key of d.
C17_AddDays ==
    calc.fn = "addDays" =>
        LET k == dayKey(calc.arg.d)
        IN  /\ calc.out.next = NextCivil(k)
            /\ calc.out.back = k
            /\ k = <<2024, 2, 29>> => calc.out.next = <<2024, 3, 1>>
            /\ k = <<2023, 12, 31>> => calc.out.next = <<2024, 1, 1>>

\* addDays was applied to the last millisecond of 2024-02-29.
C17_Witness ==
    /\ calc.fn = "addDays"
    /\ dayKey(calc.arg.d) = <<2024, 2, 29>> /\ calc.arg.d % MsPerDay = MsPerDay - 1
    /\ calc.arg.n = MaxShift
    /\ calc.out.next = <<2024, 3, 1>>

(***************************************************************************)
(* Further claims about the task store.                                    *)
(***************************************************************************)
\* The identifiers of a collection, in its order.
IdSeq(ts) == [i \in DOMAIN ts |-> ts[i].id]

UniqueIds(ts) == \A i, j \in DOMAIN ts : ts[i].id = ts[j].id => i = j

\* C14: no two tasks of the collection share an id, and a step of add,
\* inline add, toggle, delete or clear-done leaves the ids of the tasks that
\* stay as they were, in their order: a toggle changes no id, an add puts one
\* new id in front, a delete only takes ids away.  Checked under Spec.
C14_IdsUniqueAndStable ==
    [][ /\ UniqueIds(todos) /\ UniqueIds(todos')
        /\ (\E id \in AllIds : toggleTodo(id)) => IdSeq(todos') = IdSeq(todos)
        /\ ~(Mount \/ \E f \in BagToSet(fetches) : FetchDone(f)) =>
              \/ IdSeq(todos') = SelectSeq(IdSeq(todos), LAMBDA id : id \in Ids(todos'))
              \/ /\ todos' # <<>>
                 /\ todos'[1].id \notin Ids(todos)
                 /\ Tail(IdSeq(todos')) = IdSeq(todos)
      ]_vars

\* A task was added in front of another and then toggled: two tasks, two ids.
C14_Witness ==
    /\ Len(todos) = 2
    /\ todos[1].id # SeedId /\ todos[1].done
    /\ todos[2].id = SeedId

\* The tasks the documents of an account stand for.
RemoteTasks(docs) ==
    {fromFirestoreTodo(docs[i].id, docs[i].data, now) : i \in DOMAIN docs}

\* C18: a user is signed in, the fetch of the sign-in has completed and every
\* remote write issued since has succeeded, in whatever order the store
\* applied them: once no write is in flight, the account holds exactly the
\* tasks of the collection, field by field.  Checked under SpecSynced, where
\* no remote call fails.
C18_RemoteEqualsMemory ==
    (writes = EmptyBag /\ deletes = EmptyBag) =>
        /\ Len(remote[user]) = Len(todos)
        /\ RemoteTasks(remote[user]) = {todos[i] : i \in DOMAIN todos}

\* C19: when the fetch of the sign-in completes, a task added while it was in
\* flight is still in the collection and a task deleted while it was in
\* flight is still absent.  Checked under SpecRace, which starts with the
\* seed task in the collection and that fetch in flight: every other task was
\* added during the fetch, and the seed task is absent only if deleted.
C19_MutationsSurviveFetch ==
    [][\A f \in BagToSet(fetches) :
          FetchDone(f) =>
              /\ \A id \in Ids(todos) : id # SeedId => id \in Ids(todos')
              /\ SeedId \notin Ids(todos) => SeedId \notin Ids(todos')]_vars

\* The ids a delete in flight still has to go through after its own.
RestOf(d) == {d.rest[i] : i \in DOMAIN d.rest}

\* C20: every task clear-done removes gets a remote delete of its own, and a
\* delete that fails does not keep the deletes of the other cleared tasks
\* from being issued.  Checked under SpecFaulty.
C20_DeletesIndependent ==
    [][ /\ clearDone =>
              \A id \in Ids(todos) \ Ids(todos') :
                  \E e \in BagToSet(deletes') : e.id = id \/ id \in RestOf(e)
        /\ \A d \in BagToSet(deletes) :
              (DeleteOk(d) \/ DeleteFail(d)) =>
                  \A id \in RestOf(d) :
                      \E e \in BagToSet(deletes') : e.id = id \/ id \in RestOf(e)
      ]_vars

\* C21: the signed-in user changes while the fetch of the previous sign-in is
\* still in flight; once every fetch has completed, in whichever order, the
\* collection and the local cache hold the tasks fetched for the user now
\* signed in.  Checked under SpecSwitch, where the accounts do not change and
\* every fetch completes.
C21_LastUserWins ==
    (user # NoUser /\ fetches = EmptyBag) =>
        /\ todos = FreshTodos(remote[user], now)
        /\ cache = Item(JsonStringify(FreshTodos(remote[user], now)))

\* C22: every plan written to a user's settings document was loaded from
\* that user's settings or edited while that user was signed in (or is the
\* plan every session starts with); the plan a previous user left in memory
\* is never saved into the next user's settings.  Checked under
\* SpecPlanSwitch, with two accounts.
C22_PlanStaysWithItsUser ==
    \A w \in BagToSet(planWrites) :
        w.plan \in ownPlans[w.uid] \cup {defaultPlan}

\* The position of the task with the given id.
PosOf(ts, id) == CHOOSE i \in 1..Len(ts) : ts[i].id = id

\* Every task of `after` is a task of `before`, unchanged, once, and in the
\* same relative order.
KeptInOrder(before, after) ==
    /\ UniqueIds(after)
    /\ \A i \in 1..Len(after) :
          /\ after[i].id \in Ids(before)
          /\ after[i] = Find(before, after[i].id)
    /\ \A i, j \in 1..Len(after) :
          i < j => PosOf(before, after[i].id) < PosOf(before, after[j].id)

\* The ids of the done tasks of the selected category.
DoneInCategory ==
    {todos[i].id : i \in {j \in 1..Len(todos) :
                             todos[j].done /\ todos[j].category = category}}

\* C23: clearDone removes from the collection exactly the done tasks of the
\* selected category, and removeTodo(id) exactly the task with that id; every
\* other task stays, unchanged and in the same relative order.
C23_RemovalsAreExact ==
    [][ /\ clearDone =>
              /\ Ids(todos') = Ids(todos) \ DoneInCategory
              /\ KeptInOrder(todos, todos')
        /\ \A id \in FrameIds :
              removeTodo(id) =>
                  /\ Ids(todos') = Ids(todos) \ {id}
                  /\ KeptInOrder(todos, todos')
      ]_vars

\* clearDone has removed two done tasks of the selected category (the delete
\* of the second waits for the first) and a done task of another category is
\* still in the collection.
C23_Witness ==
    /\ \E d \in BagToSet(deletes) : d.rest # <<>>
    /\ \E i \in 1..Len(todos) : todos[i].done /\ todos[i].category # category

\* The calls a step adds to the writes in flight.
IssuedWrites == {w \in BagToSet(writes') : CopiesIn(w, writes') > CopiesIn(w, writes)}

\* The fields toggleTodo leaves alone.
ToggleFrame == {"id", "text", "createdAt", "category", "dueDay", "workoutPart"}

\* C27: toggleTodo(id) changes only done, doneAt and doneDay of the task with
\* that id; its other fields, every other task and the order of the
\* collection stay as they were.  When no task has that id the collection is
\* unchanged and no patch is issued.  The one patch it issues holds done,
\* doneAt, doneDay and the update-time marker, and nothing else.
C27_ToggleTouchesDoneFields ==
    [][\A id \in FrameIds :
          toggleTodo(id) =>
              IF id \notin Ids(todos)
              THEN todos' = todos /\ IssuedWrites = {}
              ELSE /\ Len(todos') = Len(todos)
                   /\ \A i \in 1..Len(todos) :
                         IF todos[i].id = id
                         THEN \A k \in ToggleFrame : todos'[i][k] = todos[i][k]
                         ELSE todos'[i] = todos[i]
                   /\ IssuedWrites # {}
                   /\ BagCardinality(writes') = BagCardinality(writes) + 1
                   /\ \A w \in IssuedWrites :
                         /\ w.kind = "updateDoc" /\ w.id = id
                         /\ DOMAIN w.data = {"done", "doneAt", "doneDay", "updatedAt"}
      ]_vars

\* A workout task with a due day and a body part has just been completed, its
\* patch is in flight, and the collection holds other tasks around it.
C27_Witness ==
    /\ Len(todos) = 3
    /\ todos[2].category = "workout" /\ todos[2].done /\ todos[2].doneAt = Val(now)
    /\ IsVal(todos[2].dueDay) /\ IsVal(todos[2].workoutPart)
    /\ \E w \in BagToSet(writes) : w.kind = "updateDoc" /\ w.id = todos[2].id

\* localStorage holds a serialized collection.
IsItem(c) == Len(c) = 2

\* C24: the local cache is not written before the startup read of the cache
\* has completed: a step that changes the cache ends with the store loaded,
\* and the startup step, when the cache held a collection, leaves that
\* collection in memory and in the cache instead of the initial empty one.
C24_CacheReadBeforeWritten ==
    [][ /\ cache' # cache => loaded' /\ phase' = "mounted"
        /\ (Mount /\ IsItem(cache)) =>
              /\ todos' = JsonParse(cache[2])
              /\ cache' = Item(JsonStringify(JsonParse(cache[2])))
              /\ cache' = cache
      ]_vars

\* The component has mounted over a cache that held the seed task: the task
\* is in memory and still in the cache.
C24_Witness ==
    /\ phase = "mounted" /\ loaded /\ user = NoUser
    /\ todos = <<SeedTodo(FALSE)>>
    /\ cache = Item(JsonStringify(<<SeedTodo(FALSE)>>))

\* C25: when the local cache holds a value that cannot be parsed, the
\* startup step recovers: the collection is empty, the store becomes loaded
\* and the component is mounted, no error having left the load step.
C25_CorruptCacheRecovers ==
    [][(Mount /\ cache = Corrupt) =>
           /\ todos' = <<>>
           /\ loaded'
           /\ phase' = "mounted"]_vars

\* The day key a task of the rendered collection is due on.
DueKeyOf(t) == IF IsVal(t.dueDay) THEN ValOf(t.dueDay) ELSE dayKey(now)

\* The tasks of the selected category due on day key k.
CategoryTasksDue(k) ==
    {todos[i] : i \in {j \in 1..Len(todos) :
                          todos[j].category = category /\ DueKeyOf(todos[j]) = k}}

\* C28: the per-day grouping holds, under each of the 7 keys of the current
\* Monday-to-Sunday week, exactly the tasks of the category whose effective
\* due key (dueDay, today when absent) is that key, each once and in one
\* group only; within a day the not-done tasks come before the done ones
\* and, within the same done state, the newer task comes first.
C28_GroupedByDay ==
    lists # NoLists =>
        LET keys == weekKeysMonSun(now)
        IN  /\ Len(lists.byDay) = 7
            /\ \A i \in 1..7 :
                  LET day == lists.byDay[i]
                  IN  /\ {day[p] : p \in 1..Len(day)} = CategoryTasksDue(keys[i])
                      /\ Len(day) = Cardinality(CategoryTasksDue(keys[i]))
                      /\ \A p, q \in 1..Len(day) :
                            p < q =>
                                /\ ~(day[p].done /\ ~day[q].done)
                                /\ day[p].done = day[q].done =>
                                       day[p].createdAt >= day[q].createdAt
            /\ \A i, j \in 1..7 :
                  i # j => Ids(lists.byDay[i]) \cap Ids(lists.byDay[j]) = {}

\* Today's group holds a done task without dueDay behind a task that is not
\* done, while the collection has the done one first.
C28_Witness ==
    /\ lists # NoLists
    /\ \E i \in 1..7 :
          /\ Len(lists.byDay[i]) = 2
          /\ ~lists.byDay[i][1].done /\ lists.byDay[i][2].done
          /\ lists.byDay[i][2].dueDay = Undefined
          /\ todos[1] = lists.byDay[i][2]

\* The position of day key k in the current week, 0 when it is outside.
WeekIndex(k) ==
    IF InWeek(k, now) THEN CHOOSE i \in 1..7 : weekKeysMonSun(now)[i] = k ELSE 0

\* C26: a task created by inline-add in the column of day D of the current
\* week is, in the render that follows, in the per-day group of D, whatever
\* the selected category and also when D is not today.
C26_InlineAddLandsOnItsDay ==
    [][\A text \in TextInputs, day \in InlineDayInputs, part \in PartInputs :
          (addTodoInline(text, day, part) /\ todos' # todos) =>
              todos'[1].id \in
                  Ids(weekTasksByDay(todosInCat(todos', category), now)[WeekIndex(day)])
      ]_vars

\* C29: whatever adds, inline adds, toggles, deletes, clear-done and category
\* switches have happened, a task of the collection carries a workoutPart if
\* and only if its category is workout.
C29_PartIffWorkout ==
    \A i \in 1..Len(todos) :
        IsVal(todos[i].workoutPart) <=> todos[i].category = "workout"

\* A workout task was added with its body part and completed, next to a task
\* of another category that has none.
C29_Witness ==
    /\ Len(todos) = 2
    /\ todos[1].category = "workout" /\ todos[1].workoutPart = Val("chest")
    /\ todos[1].done
    /\ todos[2].category = "daily" /\ todos[2].workoutPart = Undefined

\* The weekday of day key k, as a plan key.
OwnWeekday(k) == weekdayOrder[((DaysFromCivil(k) + 3) % 7) + 1]

weekdayName ==
    [mon |-> "Mon", tue |-> "Tue", wed |-> "Wed", thu |-> "Thu", fri |-> "Fri",
     sat |-> "Sat", sun |-> "Sun"]

\* C30: in every time zone, the weekly aggregate of the workout category
\* attaches to each day key the label of the plan row of that key's own
\* weekday, the weekday its short label shows, when the row is enabled and
\* nothing otherwise; an inline add in the column of day D takes the body
\* part of the row of D's own weekday when enabled, else the form's.
C30_PlanLabelOfOwnWeekday ==
    /\ lists # NoLists =>
          \A i \in 1..7 :
              LET e   == lists.labels[i]
                  row == plan[OwnWeekday(e.key)]
              IN  /\ e.wd = weekdayName[OwnWeekday(e.key)]
                  /\ e.planText = IF category = "workout" /\ row.enabled
                                  THEN Val(partLabel[row.part]) ELSE Null
    /\ \A i \in 1..Len(todos) :
          todos[i].category = "workout" =>
              LET row == plan[OwnWeekday(ValOf(todos[i].dueDay))]
              IN  todos[i].workoutPart =
                      Val(IF row.enabled THEN row.part ELSE "chest")
====
